---- MODULE Spec2Model ----
(***************************************************************************)
(* Model of the markdown body parser of x-presenter                        *)
(* (src/src/presenter/parsers/slides.py, tables.py, text.py).              *)
(*                                                                         *)
(* A Python str is a sequence of one-character strings, so that strip,     *)
(* startswith, split and the regular expressions of the source are         *)
(* computed and not assumed.  A slide text is the sequence of its lines    *)
(* (the result of split("\n")).                                            *)
(*                                                                         *)
(* Spec is the scan of parse_slide_content.  The functions around it have  *)
(* a specification each, in which call holds the function and its          *)
(* arguments and frame what the call has done so far: SpecTables           *)
(* (parse_table, parse_table_alignment), SpecSlides (parse_markdown_slides),*)
(* SpecNotes (the speaker notes of parse_slide_content), SpecConvert       *)
(* (MarkdownToPowerPoint.convert) and SpecCreate (CmdLine.create).         *)
(***************************************************************************)
EXTENDS Integers, Sequences, FiniteSets, TLC

\* Longest slide text that Init draws, in lines, not counting a leading title line.
MaxLines == 3

----------------------------------------------------------------------------
(* str primitives *)

\* A space or a tab: the class [ \t] and the test c in (" ", "\t").
IsSpace(c) == c \in {" ", "\t"}

\* Whitespace, as str.strip() with no argument and \s take it: the line
\* terminators count.
IsWhitespace(c) == c \in {" ", "\t", "\n", "\r"}

\* str.strip() with no argument removes whitespace at both ends.
RECURSIVE lstrip(_)
lstrip(s) == IF s # <<>> /\ IsWhitespace(Head(s)) THEN lstrip(Tail(s)) ELSE s

RECURSIVE rstrip(_)
rstrip(s) ==
    IF s # <<>> /\ IsWhitespace(s[Len(s)]) THEN rstrip(SubSeq(s, 1, Len(s) - 1)) ELSE s

strip(s) == rstrip(lstrip(s))

startswith(s, p) == Len(s) >= Len(p) /\ SubSeq(s, 1, Len(p)) = p

endswith(s, p) == Len(s) >= Len(p) /\ SubSeq(s, Len(s) - Len(p) + 1, Len(s)) = p

\* s[n:]
slice_from(s, n) == SubSeq(s, n + 1, Len(s))

\* s.split(c) for a one-character separator: always at least one part.
RECURSIVE split_acc(_, _, _)
split_acc(s, c, cur) ==
    IF s = <<>> THEN <<cur>>
    ELSE IF Head(s) = c THEN <<cur>> \o split_acc(Tail(s), c, <<>>)
    ELSE split_acc(Tail(s), c, Append(cur, Head(s)))

split(s, c) == split_acc(s, c, <<>>)

\* sep.join(parts)
RECURSIVE join(_, _)
join(parts, sep) ==
    IF parts = <<>> THEN <<>>
    ELSE IF Len(parts) = 1 THEN parts[1]
    ELSE parts[1] \o sep \o join(Tail(parts), sep)

\* [f(x) for x in xs]
strip_each(xs) == [k \in 1..Len(xs) |-> strip(xs[k])]

\* 1-based position of the first c in s, 0 when there is none.
find(s, c) ==
    IF \E k \in 1..Len(s) : s[k] = c
    THEN CHOOSE k \in 1..Len(s) : s[k] = c /\ \A m \in 1..(k - 1) : s[m] # c
    ELSE 0

IsDigit(c) == c \in {"0", "1", "2", "3", "4", "5", "6", "7", "8", "9"}

\* Length of the longest prefix of s whose characters all satisfy a class.
RECURSIVE digit_run(_)
digit_run(s) == IF s # <<>> /\ IsDigit(Head(s)) THEN 1 + digit_run(Tail(s)) ELSE 0

RECURSIVE space_run(_)
space_run(s) == IF s # <<>> /\ IsWhitespace(Head(s)) THEN 1 + space_run(Tail(s)) ELSE 0

----------------------------------------------------------------------------
(* parsers/text.py *)

\* re.match(r"^\d+\.\s+(.*)", text): [ok, group1].
ordered_match(text) ==
    LET d == digit_run(text)
        afterDot == slice_from(text, d + 1)
        w == space_run(afterDot)
    IN  IF d >= 1 /\ Len(text) > d /\ text[d + 1] = "." /\ w >= 1
        THEN [ok |-> TRUE, group1 |-> slice_from(afterDot, w)]
        ELSE [ok |-> FALSE, group1 |-> <<>>]

is_list_item(text) ==
    \/ startswith(text, <<"-", " ">>)
    \/ startswith(text, <<"*", " ">>)
    \/ ordered_match(text).ok

----------------------------------------------------------------------------
(* parsers/tables.py *)

\* re.search(r"\S", c)
has_nonspace(c) == \E k \in 1..Len(c) : ~IsWhitespace(c[k])

\* re.fullmatch(r"[:\- ]+", c)
only_dash_colon_space(c) == c # <<>> /\ \A k \in 1..Len(c) : c[k] \in {":", "-", " "}

\* The list with an empty first cell and an empty last cell removed.
trim_outer_cells(cells) ==
    LET a == IF cells # <<>> /\ cells[1] = <<>> THEN Tail(cells) ELSE cells
    IN  IF a # <<>> /\ a[Len(a)] = <<>> THEN SubSeq(a, 1, Len(a) - 1) ELSE a

is_table_row(line) ==
    IF line = <<>> THEN FALSE
    ELSE IF find(line, "|") = 0 THEN FALSE
    ELSE LET cells == trim_outer_cells(strip_each(split(line, "|")))
         IN  IF Len(cells) < 2 THEN FALSE
             ELSE \E k \in 1..Len(cells) :
                     has_nonspace(cells[k]) /\ ~only_dash_colon_space(cells[k])

\* The row without one leading and one trailing pipe.
without_outer_pipes(row) ==
    LET a == IF startswith(row, <<"|">>) THEN slice_from(row, 1) ELSE row
    IN  IF endswith(a, <<"|">>) THEN SubSeq(a, 1, Len(a) - 1) ELSE a

\* re.fullmatch(r":?-{3,}:?", part)
is_separator_cell(part) ==
    LET a == IF startswith(part, <<":">>) THEN slice_from(part, 1) ELSE part
        b == IF endswith(a, <<":">>) THEN SubSeq(a, 1, Len(a) - 1) ELSE a
    IN  Len(b) >= 3 /\ \A k \in 1..Len(b) : b[k] = "-"

is_table_separator(line) ==
    IF line = <<>> THEN FALSE
    ELSE LET parts == strip_each(split(without_outer_pipes(strip(line)), "|"))
         IN  IF Len(parts) < 1 THEN FALSE
             ELSE \A k \in 1..Len(parts) : is_separator_cell(parts[k])

\* A reading of the colons that takes a leading colon for "right".
alignment_of_leading_colon(part) ==
    IF startswith(part, <<":">>) /\ endswith(part, <<":">>) THEN "center"
    ELSE IF startswith(part, <<":">>) THEN "right"
    ELSE "left"

alignment_of(part) ==
    IF startswith(part, <<":">>) /\ endswith(part, <<":">>) THEN "center"
    ELSE IF endswith(part, <<":">>) THEN "right"
    ELSE "left"

parse_table_alignment(separator) ==
    LET parts == strip_each(split(without_outer_pipes(strip(separator)), "|"))
    IN  [k \in 1..Len(parts) |-> alignment_of(parts[k])]

parse_table_row(line) == strip_each(split(without_outer_pipes(strip(line)), "|"))

\* [x] * n
repeat(x, n) == [k \in 1..n |-> x]

\* A search that looks at the first line only.
separator_index_first_line(table_lines) ==
    IF table_lines # <<>> /\ is_table_separator(strip(table_lines[1])) THEN 1 ELSE 0

\* Index of the first separator row of table_lines, 0 for None.
separator_index(table_lines) ==
    IF \E k \in 1..Len(table_lines) : is_table_separator(strip(table_lines[k]))
    THEN CHOOSE k \in 1..Len(table_lines) :
            /\ is_table_separator(strip(table_lines[k]))
            /\ \A m \in 1..(k - 1) : ~is_table_separator(strip(table_lines[m]))
    ELSE 0

\* The loop over the lines after the separator: [rows, alignments].
RECURSIVE data_rows(_, _, _)
data_rows(rest, rows, alignments) ==
    IF rest = <<>> THEN [rows |-> rows, alignments |-> alignments]
    ELSE IF strip(Head(rest)) = <<>> THEN data_rows(Tail(rest), rows, alignments)
    ELSE IF ~is_table_row(strip(Head(rest)))
         THEN [rows |-> rows, alignments |-> alignments]
    ELSE LET cells == parse_table_row(Head(rest))
         IN  IF Len(cells) < Len(alignments)
             THEN data_rows(Tail(rest),
                            Append(rows, cells \o repeat(<<>>, Len(alignments) - Len(cells))),
                            alignments)
             ELSE data_rows(Tail(rest), Append(rows, cells),
                            alignments \o repeat("left", Len(cells) - Len(alignments)))

\* parse_table: raised is the name of the exception raised, "" when it returns.
parse_table(table_lines) ==
    LET sep == separator_index(table_lines)
    IN  IF table_lines = <<>> \/ sep = 0
        THEN [raised |-> "TableParseError"]
        ELSE LET has_header == sep >= 2
                 headers0 == IF has_header THEN parse_table_row(table_lines[sep - 1])
                             ELSE <<>>
                 d == data_rows(slice_from(table_lines, sep), <<>>,
                                parse_table_alignment(table_lines[sep]))
                 nh == Len(headers0)
                 na == Len(d.alignments)
             IN  [raised |-> "",
                  has_header |-> has_header,
                  headers |-> IF has_header /\ nh < na
                              THEN headers0 \o repeat(<<>>, na - nh) ELSE headers0,
                  rows |-> d.rows,
                  alignments |-> IF has_header /\ nh > na
                                 THEN d.alignments \o repeat("left", nh - na)
                                 ELSE d.alignments,
                  raw |-> table_lines]

----------------------------------------------------------------------------
(* parsers/slides.py: parse_slide_content *)

\* The characters of a Python string literal.
Blank == <<>>
NL == <<"\n">>
SP == <<" ">>
\* The backtick character (a string literal of the module cannot hold it).
BQ == "BACKTICK"
Fence == <<BQ, BQ, BQ>>

\* The slide lines the model draws its inputs from: one line of every shape the
\* scan distinguishes.
LineSet ==
    { Blank,
      <<"a">>,
      <<"-", " ", "b">>,
      <<"1", ".", " ", "c">>,
      <<" ", " ", "d">>,
      <<"#", " ", "T">>,
      <<"#", "#", " ", "U">>,
      <<"#", "#", "#", " ", "h">>,
      <<"#", "#", "#", "#", " ", "k">>,
      <<"#", "#", "#", "#", "#", " ", "m">>,
      <<"#", "#", "#", "#", "#", "#", " ", "n">>,
      <<BQ, BQ, BQ, "p">>,
      <<" ", "x", "|", "y">>,
      <<"-", "-", "-">>,
      <<"!", "[", "i", "]", "(", "u", ")">>,
      <<"-", " ", "e", "|", "f">> }

\* The slide texts the model parses: str.split("\n") returns at least one line; a
\* slide is any sequence of lines, and also any such sequence under a title line.
SlideTexts ==
    LET free == UNION {[1..n -> LineSet] : n \in 1..MaxLines}
    IN  free \cup {<<<<"#", " ", "T">>>> \o t : t \in free}

\* Number of "#" of a content header "### " .. "###### ", 0 for any other line.
header_level(stripped) ==
    IF \E n \in 3..6 : startswith(stripped, repeat("#", n) \o SP)
    THEN CHOOSE n \in 3..6 : startswith(stripped, repeat("#", n) \o SP)
    ELSE 0

\* The tests of the if/elif chain that read the line alone, in the order of the
\* chain: the first that holds.
shape(s) ==
    IF s = <<>> THEN "blank"
    ELSE IF is_table_row(s) \/ is_table_separator(s) THEN "table"
    ELSE IF startswith(s, Fence) THEN "fence"
    ELSE IF startswith(s, <<"#", " ">>) \/ startswith(s, <<"#", "#", " ">>) THEN "title"
    ELSE IF header_level(s) # 0 THEN "header"
    ELSE IF startswith(s, <<"!", "[">>) THEN "image"
    ELSE IF is_list_item(s) THEN "list_item"
    ELSE "other"

\* Two lines that look like a heading and like an image and are neither: a "#"
\* without a space after it, and "![alt]" without a path.
MoreLines ==
    { <<"#", "x">>,
      <<"!", "[", "i", "]">> }

\* What the scan asks of a line, computed once for every line of the model.
LineFacts ==
    [l \in LineSet \cup MoreLines |->
        [stripped |-> strip(l),
         shape |-> shape(strip(l)),
         is_table_line |-> is_table_row(strip(l)) \/ is_table_separator(strip(l)),
         is_list_item |-> is_list_item(strip(l))]]

VARIABLES
    src,                  \* the lines of slide_markdown_clean as split (never written)
    lines,                \* the list the loop enumerates; table runs are blanked in it
    i,                    \* 1-based index of the line the loop is at
    pc,                   \* "scan", "done" (returned) or "raised" (exception escaped)
    slide_data,
    current_list,
    in_list,
    in_code_block,
    current_code_block,   \* <<>> models the empty dict {}
    code_block_language,
    current_paragraph,
    firsts,               \* history: for each body item, the index of its first line;
                          \* para and list hold it for the two pending buffers
    call,                 \* the function under call and its arguments (never written)
    frame                 \* the locals of a call of a function other than
                          \* parse_slide_content, and what it returned or raised

vars == <<src, lines, i, pc, slide_data, current_list, in_list, in_code_block,
          current_code_block, code_block_language, current_paragraph, firsts,
          call, frame>>

Init ==
    /\ src \in SlideTexts
    /\ lines = src
    /\ i = 1
    /\ pc = "scan"
    /\ slide_data = [title |-> <<>>, body |-> <<>>, images |-> <<>>,
                     code_blocks |-> <<>>, speaker_notes |-> <<>>]
    /\ current_list = <<>>
    /\ in_list = FALSE
    /\ in_code_block = FALSE
    /\ current_code_block = <<>>
    /\ code_block_language = <<>>
    /\ current_paragraph = <<>>
    /\ firsts = [body |-> <<>>, para |-> 0, list |-> 0]
    /\ call = [fn |-> "parse_slide_content"]
    /\ frame = <<>>

original_line == lines[i]
line_stripped == LineFacts[lines[i]].stripped

\* bool(d) for a dict
truthy(d) == DOMAIN d # {}

ContentItem(text, content_type) ==
    [type |-> "content", text |-> text, content_type |-> content_type]

ListItem(items) == [type |-> "list", items |-> items]

TableItem(table) == [type |-> "table", table |-> table]

\* The buffers a branch flushes, as one record.
Buffers ==
    [body |-> slide_data.body, firsts |-> firsts,
     current_paragraph |-> current_paragraph,
     current_list |-> current_list, in_list |-> in_list]

\* if current_paragraph:
\*     body.append({"type": "content", "text": " ".join(current_paragraph), ...})
\*     current_paragraph = []
flush_paragraph(st) ==
    IF st.current_paragraph # <<>>
    THEN [st EXCEPT !.body = Append(@, ContentItem(join(st.current_paragraph, SP), "text")),
                    !.firsts = [@ EXCEPT !.body = Append(@, st.firsts.para), !.para = 0],
                    !.current_paragraph = <<>>]
    ELSE st

\* body.append({"type": "list", "items": current_list}); current_list = [];
\* in_list = False
emit_list(st) ==
    [st EXCEPT !.body = Append(@, ListItem(st.current_list)),
               !.firsts = [@ EXCEPT !.body = Append(@, st.firsts.list), !.list = 0],
               !.current_list = <<>>,
               !.in_list = FALSE]

\* Mutant: the list is emitted whether it holds an item or not.
close_list_unguarded(st) == emit_list(st)

\* if in_list and current_list: (emit the list)
close_list(st) == IF st.in_list /\ st.current_list # <<>> THEN emit_list(st) ELSE st

\* body.append(item), for an item that starts at the line the loop is at.
append_body(st, item) ==
    [st EXCEPT !.body = Append(@, item),
               !.firsts = [@ EXCEPT !.body = Append(@, i)]]

\* current_paragraph.append(text), for text of the line the loop is at.
append_paragraph(st, text) ==
    [st EXCEPT !.current_paragraph = Append(@, text),
               !.firsts = [@ EXCEPT !.para = IF st.current_paragraph = <<>> THEN i ELSE @]]

\* The buffers written back, and the loop moving to the next line.
Store(st) ==
    /\ slide_data' = [slide_data EXCEPT !.body = st.body]
    /\ firsts' = st.firsts
    /\ current_paragraph' = st.current_paragraph
    /\ current_list' = st.current_list
    /\ in_list' = st.in_list

StoreWith(st, title, images, code_blocks) ==
    /\ slide_data' = [slide_data EXCEPT !.body = st.body, !.title = title,
                                        !.images = images, !.code_blocks = code_blocks]
    /\ firsts' = st.firsts
    /\ current_paragraph' = st.current_paragraph
    /\ current_list' = st.current_list
    /\ in_list' = st.in_list

\* The look-ahead of the blank-line branch: is the next non-empty line a list item?
RECURSIVE next_is_list(_, _)
next_is_list(ls, j) ==
    IF j > Len(ls) THEN FALSE
    ELSE IF LineFacts[ls[j]].stripped # <<>> THEN LineFacts[ls[j]].is_list_item
    ELSE next_is_list(ls, j + 1)

\* Index of the last line of the contiguous run of table lines that starts at j.
RECURSIVE run_end(_, _)
run_end(ls, j) ==
    IF j + 1 <= Len(ls) /\ LineFacts[ls[j + 1]].is_table_line THEN run_end(ls, j + 1) ELSE j

\* re.match(r"!\[([^\]]*)\]\(([^)]+)\)", line_stripped): [ok, alt, path].
image_match(stripped) ==
    LET rest == slice_from(stripped, 2)
        rb == find(rest, "]")
        tail == slice_from(rest, rb + 1)
        rp == find(tail, ")")
    IN  IF /\ startswith(stripped, <<"!", "[">>)
           /\ rb > 0
           /\ Len(rest) > rb /\ rest[rb + 1] = "("
           /\ rp > 1
        THEN [ok |-> TRUE, alt |-> SubSeq(rest, 1, rb - 1), path |-> SubSeq(tail, 1, rp - 1)]
        ELSE [ok |-> FALSE, alt |-> <<>>, path |-> <<>>]

\* The text of a list item without its bullet or number.
item_text(stripped) ==
    IF ordered_match(stripped).ok THEN ordered_match(stripped).group1
    ELSE IF startswith(stripped, <<"-", " ">>) THEN strip(slice_from(stripped, 2))
    ELSE IF startswith(stripped, <<"*", " ">>) THEN strip(slice_from(stripped, 2))
    ELSE stripped

\* The branch of the loop body that handles a line: the if/elif chain in its
\* order, "if in_code_block" standing between the fence and the title tests.
branch(original, in_code, inl) ==
    LET sh == LineFacts[original].shape
    IN  IF sh \in {"blank", "table", "fence"} THEN sh
        ELSE IF in_code THEN "code"
        ELSE IF sh \in {"title", "header", "image", "list_item"} THEN sh
        ELSE IF inl /\ Len(original) > 0 /\ IsSpace(original[1]) THEN "continuation"
        ELSE "regular"

At(b) == pc = "scan" /\ i <= Len(lines) /\ branch(lines[i], in_code_block, in_list) = b

\* Mutant: the blank line closes the list whatever follows.
blank_always_closes_list(st, nil) == close_list(st)

\* Lines 116-143: an empty line.
blank_closes_list(st, nil) == IF ~nil THEN close_list(st) ELSE st

BlankLine ==
    /\ At("blank")
    /\ Store(blank_closes_list(flush_paragraph(Buffers), next_is_list(lines, i + 1)))
    /\ i' = i + 1
    /\ UNCHANGED <<src, lines, pc, in_code_block, current_code_block, code_block_language>>
    /\ UNCHANGED <<call, frame>>

\* for k in range(i, i + len(table_lines)): lines[k] = ""
blank_out(ls, from, to) == [k \in 1..Len(ls) |-> IF from <= k /\ k <= to THEN Blank ELSE ls[k]]

\* Mutant: the lines go back into the paragraph as they are, not stripped.
RECURSIVE reinject_unstripped(_, _)
reinject_unstripped(st, table_lines) ==
    IF table_lines = <<>> THEN st
    ELSE reinject_unstripped(append_paragraph(st, Head(table_lines)), Tail(table_lines))

\* for tl in table_lines: if tl.strip(): current_paragraph.append(tl.strip())
RECURSIVE reinject(_, _)
reinject(st, table_lines) ==
    IF table_lines = <<>> THEN st
    ELSE reinject(IF strip(Head(table_lines)) # <<>>
                  THEN append_paragraph(st, strip(Head(table_lines)))
                  ELSE st,
                  Tail(table_lines))

\* Mutant: the handler names another exception class.
handler_catches_ValueError(exc) == exc = "ValueError"

\* except TableParseError: the exceptions the handler of the try catches.
handler_catches(exc) == exc = "TableParseError"

\* The try block when parse_table returned, the except block when it raised.
table_or_fallback(st, table_lines) ==
    LET parsed == parse_table(table_lines)
    IN  IF parsed.raised # "" THEN reinject(st, table_lines)
        ELSE append_body(st, TableItem([has_header |-> parsed.has_header,
                                        headers |-> parsed.headers,
                                        rows |-> parsed.rows,
                                        alignments |-> parsed.alignments,
                                        raw |-> parsed.raw]))

\* Lines 145-190: a table row or a separator starts a run of table lines.  An
\* exception of parse_table that the handler does not catch leaves the function.
TableLine ==
    /\ At("table")
    /\ LET last == run_end(lines, i)
           exc == parse_table(SubSeq(lines, i, last)).raised
       IN  IF exc # "" /\ ~handler_catches(exc)
           THEN /\ Store(close_list(flush_paragraph(Buffers)))
                /\ pc' = "raised"
                /\ UNCHANGED <<lines, i>>
           ELSE /\ Store(table_or_fallback(close_list(flush_paragraph(Buffers)),
                                           SubSeq(lines, i, last)))
                /\ lines' = blank_out(lines, i, last)
                /\ i' = i + 1
                /\ pc' = pc
    /\ UNCHANGED <<src, in_code_block, current_code_block, code_block_language>>
    /\ UNCHANGED <<call, frame>>

\* Lines 192-221: a code fence opens or closes a code block.
CodeFence ==
    /\ At("fence")
    /\ IF ~in_code_block
       THEN /\ Store(close_list(flush_paragraph(Buffers)))
            /\ in_code_block' = TRUE
            /\ code_block_language' = strip(slice_from(line_stripped, 3))
            /\ current_code_block' =
                 [language |-> strip(slice_from(line_stripped, 3)), code |-> <<>>]
       ELSE /\ StoreWith(flush_paragraph(Buffers), slide_data.title, slide_data.images,
                         Append(slide_data.code_blocks, current_code_block))
            /\ current_code_block' = <<>>
            /\ code_block_language' = <<>>
            /\ in_code_block' = FALSE
    /\ i' = i + 1
    /\ UNCHANGED <<src, lines, pc>>
    /\ UNCHANGED <<call, frame>>

\* current_code_block["code"] with a line appended.
accumulate(block, original) ==
    [block EXCEPT !.code = IF @ # <<>> THEN @ \o NL \o original ELSE original]

\* Lines 223-230: a line inside an open code block.  The subscript raises
\* KeyError when the dict has no "code" key.
CodeLine ==
    /\ At("code")
    /\ IF "code" \in DOMAIN current_code_block
       THEN /\ current_code_block' = accumulate(current_code_block, original_line)
            /\ i' = i + 1
            /\ pc' = pc
       ELSE /\ pc' = "raised"
            /\ UNCHANGED <<current_code_block, i>>
    /\ UNCHANGED <<src, lines, slide_data, current_list, in_list, in_code_block,
                   code_block_language, current_paragraph, firsts>>
    /\ UNCHANGED <<call, frame>>

\* A reading of the heading that drops three characters whatever its level.
title_text_of_level_2(stripped) == strip(slice_from(stripped, 3))

\* line_stripped[2:].strip() for "# ", line_stripped[3:].strip() for "## "
title_text(stripped) ==
    IF startswith(stripped, <<"#", " ">>)
    THEN strip(slice_from(stripped, 2))
    ELSE strip(slice_from(stripped, 3))

\* Lines 232-269: "# " and "## " set the title.
TitleLine ==
    /\ At("title")
    /\ StoreWith(close_list(flush_paragraph(Buffers)), title_text(line_stripped),
                 slide_data.images, slide_data.code_blocks)
    /\ i' = i + 1
    /\ UNCHANGED <<src, lines, pc, in_code_block, current_code_block, code_block_language>>
    /\ UNCHANGED <<call, frame>>

\* A content type that forgets the level.
header_type_h3(n) == "h3"

\* The content type of a header of level n.
header_type(n) == CASE n = 3 -> "h3" [] n = 4 -> "h4" [] n = 5 -> "h5" [] n = 6 -> "h6"

\* Lines 271-375: "### " to "###### " are content, or the title when none is set.
HeaderLine ==
    /\ At("header")
    /\ LET n == header_level(line_stripped)
           header_text == strip(slice_from(line_stripped, n + 1))
           st == close_list(flush_paragraph(Buffers))
       IN  IF slide_data.title # <<>>
           THEN Store(append_body(st, ContentItem(header_text, header_type(n))))
           ELSE StoreWith(st, header_text, slide_data.images, slide_data.code_blocks)
    /\ i' = i + 1
    /\ UNCHANGED <<src, lines, pc, in_code_block, current_code_block, code_block_language>>
    /\ UNCHANGED <<call, frame>>

\* Lines 377-399: an image reference.
ImageLine ==
    /\ At("image")
    /\ LET m == image_match(line_stripped)
       IN  StoreWith(close_list(flush_paragraph(Buffers)), slide_data.title,
                     IF m.ok THEN Append(slide_data.images, [alt |-> m.alt, path |-> m.path])
                     ELSE slide_data.images,
                     slide_data.code_blocks)
    /\ i' = i + 1
    /\ UNCHANGED <<src, lines, pc, in_code_block, current_code_block, code_block_language>>
    /\ UNCHANGED <<call, frame>>

\* if not in_list: in_list = True; current_list = []
\* current_list.append(item_text)
add_item(st, text) ==
    [st EXCEPT !.in_list = TRUE,
               !.current_list = Append(IF st.in_list THEN @ ELSE <<>>, text),
               !.firsts = [@ EXCEPT !.list = IF st.in_list THEN @ ELSE i]]

\* Lines 401-432: a list item.
ListItemLine ==
    /\ At("list_item")
    /\ Store(add_item(flush_paragraph(Buffers), item_text(line_stripped)))
    /\ i' = i + 1
    /\ UNCHANGED <<src, lines, pc, in_code_block, current_code_block, code_block_language>>
    /\ UNCHANGED <<call, frame>>

\* Mutant: the continuation line becomes an item of its own.
continue_as_new_item(lst, stripped) == Append(lst, stripped)

\* if current_list: current_list[-1] = current_list[-1] + " " + line_stripped
continue_item(lst, stripped) ==
    IF lst # <<>> THEN [lst EXCEPT ![Len(lst)] = @ \o SP \o stripped] ELSE lst

\* Lines 434-439: an indented line while a list is open.
ContinuationLine ==
    /\ At("continuation")
    /\ current_list' = continue_item(current_list, line_stripped)
    /\ i' = i + 1
    /\ UNCHANGED <<src, lines, pc, slide_data, in_list, in_code_block, current_code_block,
                   code_block_language, current_paragraph, firsts>>
    /\ UNCHANGED <<call, frame>>

\* if not line_stripped.startswith("#") and line_stripped:
\*     current_paragraph.append(line_stripped)
regular_text(st, stripped) ==
    IF ~startswith(stripped, <<"#">>) /\ stripped # <<>>
    THEN append_paragraph(st, stripped) ELSE st

\* Mutant: the else branch forgets to close the open list.
regular_content_keeps_list(st, stripped) == regular_text(st, stripped)

\* The else branch: close the list, then accumulate the line.
regular_content(st, stripped) == regular_text(close_list(st), stripped)

\* Lines 441-450: regular content.
RegularLine ==
    /\ At("regular")
    /\ Store(regular_content(Buffers, line_stripped))
    /\ i' = i + 1
    /\ UNCHANGED <<src, lines, pc, in_code_block, current_code_block, code_block_language>>
    /\ UNCHANGED <<call, frame>>

\* An end of the scan that forgets the pending paragraph.
end_flush_list_only(st) == close_list(st)

\* Lines 452-466: the pending paragraph, then the pending list.
end_flush(st) == close_list(flush_paragraph(st))

\* Mutant: the block that is still open at the end of the slide is forgotten.
end_code_blocks_forgets(blocks, in_code, block) == blocks

\* Lines 468-477: an unclosed code block is added as it is.
end_code_blocks(blocks, in_code, block) ==
    IF in_code /\ truthy(block) THEN Append(blocks, block) ELSE blocks

\* [f(item) for item in body if item["type"] == t]
RECURSIVE of_type(_, _)
of_type(body, t) ==
    IF body = <<>> THEN <<>>
    ELSE (IF Head(body).type = t THEN <<Head(body)>> ELSE <<>>) \o of_type(Tail(body), t)

\* Mutant: a projection that gives every Content item the default type.
projection_default_types(body) ==
    LET cs == of_type(body, "content")
        ls == of_type(body, "list")
    IN  [content |-> [k \in 1..Len(cs) |-> cs[k].text],
         content_types |-> [k \in 1..Len(cs) |-> "text"],
         lists |-> [k \in 1..Len(ls) |-> ls[k].items]]

\* Lines 479-501: the flat fields content, content_types and lists.
projection(body) ==
    LET cs == of_type(body, "content")
        ls == of_type(body, "list")
    IN  IF body # <<>>
        THEN [content |-> [k \in 1..Len(cs) |-> cs[k].text],
              content_types |-> [k \in 1..Len(cs) |-> cs[k].content_type],
              lists |-> [k \in 1..Len(ls) |-> ls[k].items]]
        ELSE [content |-> <<>>, content_types |-> <<>>, lists |-> <<>>]

\* Lines 452-503: the end of the loop, and the return.
Finish ==
    /\ pc = "scan"
    /\ i = Len(lines) + 1
    /\ LET st == end_flush(Buffers)
           flat == projection(st.body)
       IN  /\ slide_data' =
                 [title |-> slide_data.title,
                  body |-> st.body,
                  images |-> slide_data.images,
                  code_blocks |-> end_code_blocks(slide_data.code_blocks, in_code_block,
                                                  current_code_block),
                  speaker_notes |-> slide_data.speaker_notes,
                  content |-> flat.content,
                  content_types |-> flat.content_types,
                  lists |-> flat.lists]
           /\ firsts' = st.firsts
    /\ pc' = "done"
    /\ UNCHANGED <<src, lines, i, current_list, in_list, in_code_block,
                   current_code_block, code_block_language, current_paragraph>>
    /\ UNCHANGED <<call, frame>>

Next ==
    \/ BlankLine
    \/ TableLine
    \/ CodeFence
    \/ CodeLine
    \/ TitleLine
    \/ HeaderLine
    \/ ImageLine
    \/ ListItemLine
    \/ ContinuationLine
    \/ RegularLine
    \/ Finish

Spec == Init /\ [][Next]_vars

TypeOK ==
    /\ pc \in {"scan", "done", "raised"}
    /\ i \in 1..(Len(lines) + 1)
    /\ Len(lines) = Len(src)
    /\ Len(firsts.body) = Len(slide_data.body)

----------------------------------------------------------------------------
(* What the claims read off the source text *)

Shape(k) == LineFacts[src[k]].shape
Stripped(k) == LineFacts[src[k]].stripped
Body == slide_data.body

\* The indices of the fence lines of src, in order; the odd ones open a block.
FenceIndices == {k \in 1..Len(src) : Shape(k) = "fence"}
FencesBefore(k) == Cardinality({j \in FenceIndices : j < k})
InsideFence(k) == FencesBefore(k) % 2 = 1
NthFence(n) == CHOOSE k \in FenceIndices : FencesBefore(k) = n - 1

\* A maximal run a..b of table lines of src.
TableRun(a, b) ==
    /\ a \in 1..Len(src) /\ b \in a..Len(src)
    /\ \A j \in a..b : Shape(j) = "table"
    /\ (a = 1 \/ Shape(a - 1) # "table")
    /\ (b = Len(src) \/ Shape(b + 1) # "table")

HasSeparator(a, b) == \E j \in a..b : is_table_separator(Stripped(j))

\* The body item starts with the text of source line k.
Leads(item, k) ==
    CASE item.type = "content" /\ item.content_type = "text" ->
            startswith(item.text, Stripped(k))
      [] item.type = "content" /\ item.content_type # "text" ->
            /\ header_level(Stripped(k)) # 0
            /\ item.content_type = header_type(header_level(Stripped(k)))
            /\ item.text = strip(slice_from(Stripped(k), header_level(Stripped(k)) + 1))
      [] item.type = "list" ->
            /\ is_list_item(Stripped(k))
            /\ startswith(item.items[1], item_text(Stripped(k)))
      [] item.type = "table" -> item.table.raw[1] = src[k]

----------------------------------------------------------------------------
(* Claims *)

\* C1: the items of body appear in the order of their first source lines: every
\* body item starts with the text of one source line, and these first lines
\* strictly increase along body, at every point of the scan and at the end.
C1_BodyInSourceOrder ==
    /\ Len(firsts.body) = Len(Body)
    /\ \A k \in 1..Len(Body) :
          /\ firsts.body[k] \in 1..Len(src)
          /\ Leads(Body[k], firsts.body[k])
    /\ \A k \in 1..(Len(Body) - 1) : firsts.body[k] < firsts.body[k + 1]

\* A finished slide with a title whose body mixes a sub-heading, a paragraph and a list.
C1_Witness ==
    /\ pc = "done"
    /\ slide_data.title # <<>>
    /\ \E k \in 1..Len(Body) : Body[k].type = "list"
    /\ \E k \in 1..Len(Body) : Body[k].type = "content" /\ Body[k].content_type = "text"
    /\ \E k \in 1..Len(Body) : Body[k].type = "content" /\ Body[k].content_type = "h3"

\* C2: parse_slide_content never raises: no exception leaves the function, the
\* loop index stays within the lines, and the returned slide model has all of
\* title, body, images, code_blocks, speaker_notes, content, content_types, lists.
C2_NeverRaises ==
    /\ pc # "raised"
    /\ i \in 1..(Len(lines) + 1)
    /\ pc = "done" =>
          DOMAIN slide_data = {"title", "body", "images", "code_blocks", "speaker_notes",
                               "content", "content_types", "lists"}

\* A finished parse of a slide in which parse_table raised TableParseError.
C2_Witness ==
    /\ pc = "done"
    /\ \E a \in 1..Len(src) : \E b \in a..Len(src) :
          /\ TableRun(a, b)
          /\ parse_table(SubSeq(src, a, b)).raised = "TableParseError"

\* The source lines strictly between the n-th opening fence and its closing
\* fence (or the end of the slide).
FencedLines(n) ==
    LET open == NthFence(2 * n - 1)
        close == IF Cardinality(FenceIndices) >= 2 * n THEN NthFence(2 * n)
                 ELSE Len(src) + 1
    IN  SubSeq(src, open + 1, close - 1)

\* C3 (as claimed): the code of every code block is the newline-join of all
\* source lines between its fences, blank lines included.
C3_CodeIsAllFencedLines ==
    pc = "done" =>
        \A n \in 1..Len(slide_data.code_blocks) :
            slide_data.code_blocks[n].code = join(FencedLines(n), NL)

\* C4 (as claimed): while a code block is open, a line that looks like a table
\* row, a table separator, a heading, a list item or an image is accumulated
\* into the code block and changes none of body, title, images and the
\* paragraph buffer.
C4_FenceShieldsLines ==
    [][ ( /\ pc = "scan" /\ i <= Len(lines) /\ in_code_block
          /\ LineFacts[lines[i]].shape \in {"table", "title", "header", "image", "list_item"} )
        => ( /\ current_code_block' = accumulate(current_code_block, lines[i])
             /\ slide_data' = slide_data
             /\ current_paragraph' = current_paragraph ) ]_vars

\* Source line k is handled by the list-item branch.
ListLine(k) == Shape(k) = "list_item" /\ ~InsideFence(k)

IsOrdered(k) == ordered_match(Stripped(k)).ok

OnlyBlanksBetween(a, b) == a < b /\ \A j \in (a + 1)..(b - 1) : Stripped(j) = <<>>

\* The items of lines a and b are neighbours in one List item of body.
SameList(a, b) ==
    \E k \in 1..Len(Body) :
        /\ Body[k].type = "list"
        /\ \E m \in 1..(Len(Body[k].items) - 1) :
              /\ Body[k].items[m] = item_text(Stripped(a))
              /\ startswith(Body[k].items[m + 1], item_text(Stripped(b)))

C6_OrderedGroupsSeparate ==
    pc = "done" =>
        \A a \in 1..Len(src) : \A b \in (a + 2)..Len(src) :
            ( /\ ListLine(a) /\ IsOrdered(a) /\ OnlyBlanksBetween(a, b)
              /\ Shape(b) = "list_item" /\ IsOrdered(b) )
                => ~SameList(a, b)

\* C7 (as claimed): an ordered item, blank lines, then an unordered item: the
\* two are never in the same List item.
C7_OrderedUnorderedSeparate ==
    pc = "done" =>
        \A a \in 1..Len(src) : \A b \in (a + 2)..Len(src) :
            ( /\ ListLine(a) /\ IsOrdered(a) /\ OnlyBlanksBetween(a, b)
              /\ Shape(b) = "list_item" /\ ~IsOrdered(b) )
                => ~SameList(a, b)

\* The list after a continuation line: as many items, the earlier ones
\* unchanged, the last one extended by a space and the stripped line.
Continued(before, after, stripped) ==
    /\ Len(after) = Len(before)
    /\ \A m \in 1..(Len(before) - 1) : after[m] = before[m]
    /\ after[Len(before)] = before[Len(before)] \o SP \o stripped

Indented(l) == Len(l) > 0 /\ IsSpace(l[1])

\* C8 (as claimed): every indented line without a list marker that arrives
\* while a list is open is joined to the last item of the list.
C8_AnyIndentedLineContinues ==
    [][ ( /\ pc = "scan" /\ i <= Len(lines) /\ in_list
          /\ Indented(lines[i])
          /\ ~is_list_item(strip(lines[i])) )
        => Continued(current_list, current_list', strip(lines[i])) ]_vars

\* C8 (amended): the same for an indented line that is not blank and is none of
\* the lines the scan tests for before: table line, code fence, heading, image.
C8_ContinuationJoinsLastItem ==
    [][ ( /\ pc = "scan" /\ i <= Len(lines) /\ in_list
          /\ Indented(lines[i])
          /\ ~is_list_item(strip(lines[i]))
          /\ shape(strip(lines[i])) = "other" )
        => /\ Continued(current_list, current_list', strip(lines[i]))
           /\ in_list'
           /\ slide_data' = slide_data ]_vars

\* A finished slide with a list item that ends in the text of an indented line.
C8_Witness ==
    /\ pc = "done"
    /\ \E j \in 2..Len(src) :
          /\ Indented(src[j]) /\ Shape(j) = "other"
          /\ \E k \in 1..Len(Body) :
                /\ Body[k].type = "list"
                /\ \E m \in 1..Len(Body[k].items) :
                      endswith(Body[k].items[m], SP \o Stripped(j))

\* The lines the code-block branch is reached for.
Accumulated(l) == LineFacts[l].shape \notin {"blank", "table"}

C10_TableFallback ==
    /\ pc # "raised"
    /\ pc = "done" =>
          \A a \in 1..Len(src) : \A b \in a..Len(src) :
              (TableRun(a, b) /\ ~HasSeparator(a, b)) =>
                  /\ parse_table(SubSeq(src, a, b)).raised = "TableParseError"
                  /\ \A k \in 1..Len(Body) :
                        Body[k].type = "table" =>
                            /\ firsts.body[k] \notin a..b
                            /\ Body[k].table.raw # SubSeq(src, a, b)
                  /\ \E k \in 1..Len(Body) :
                        /\ Body[k].type = "content" /\ Body[k].content_type = "text"
                        /\ firsts.body[k] = a
                        /\ startswith(Body[k].text, join(strip_each(SubSeq(src, a, b)), SP))

\* A finished slide with a run of two or more table lines and no separator row.
C10_Witness ==
    /\ pc = "done"
    /\ \E a \in 1..Len(src) : \E b \in (a + 1)..Len(src) :
          TableRun(a, b) /\ ~HasSeparator(a, b)

\* The lines of src that start with "# " or "## " (and are no table lines).
TitleShaped == {k \in 1..Len(src) : Shape(k) = "title"}

\* Those of them that are headings: the ones outside code fences.
Headings == {k \in TitleShaped : ~InsideFence(k)}

Last(S) == CHOOSE k \in S : \A j \in S : j <= k

\* The text of the heading at line k, without its "#" marks.
HeadingText(k) ==
    LET s == Stripped(k)
    IN  IF s[2] = "#" THEN SubSeq(s, 4, Len(s)) ELSE SubSeq(s, 3, Len(s))

SubHeadingShaped == {k \in 1..Len(src) : Shape(k) = "header"}
SubHeadings == {k \in SubHeadingShaped : ~InsideFence(k)}

\* The number of "#" that s starts with.
RECURSIVE HashRun(_)
HashRun(s) == IF s # <<>> /\ Head(s) = "#" THEN 1 + HashRun(Tail(s)) ELSE 0

\* The text of the sub-heading at line k, and the content type of its level.
SubHeadingText(k) == SubSeq(Stripped(k), HashRun(Stripped(k)) + 2, Len(Stripped(k)))
SubHeadingType(k) == <<"h3", "h4", "h5", "h6">>[HashRun(Stripped(k)) - 2]

\* A title exists when the scan reaches line k: a heading or a sub-heading
\* comes before it.
TitledBefore(k) == \E j \in Headings \cup SubHeadings : j < k

\* Line k is in body as a Content item of its level, or it is not in body and
\* is the title unless a later heading has replaced it.
SubHeadingPlaced(k) ==
    IF TitledBefore(k)
    THEN \E n \in 1..Len(Body) :
            /\ firsts.body[n] = k
            /\ Body[n] = ContentItem(SubHeadingText(k), SubHeadingType(k))
    ELSE /\ \A n \in 1..Len(Body) : firsts.body[n] # k
         /\ (\A j \in Headings : j < k) => slide_data.title = SubHeadingText(k)

AtLine == pc = "scan" /\ i <= Len(lines)

LineShape == LineFacts[lines[i]].shape

\* The step put the pending paragraph into body as a Content item of its own,
\* before anything else the step added.
ParagraphFlushedFirst ==
    current_paragraph # <<>> =>
        /\ Len(slide_data'.body) > Len(Body)
        /\ SubSeq(slide_data'.body, 1, Len(Body)) = Body
        /\ slide_data'.body[Len(Body) + 1]
              = ContentItem(join(current_paragraph, SP), "text")

\* The step closed the open list: its items are a List item of body, after
\* the flushed paragraph if there is one, and the list buffer is empty.
ListClosedFirst ==
    (in_list /\ current_list # <<>>) =>
        LET at == Len(Body) + (IF current_paragraph # <<>> THEN 2 ELSE 1)
        IN  /\ Len(slide_data'.body) >= at
            /\ slide_data'.body[at] = ListItem(current_list)
            /\ ~in_list'

\* C31: blocks of different types never merge in body: a heading,
\* sub-heading, image, table line, code fence or list-item line always flushes
\* the pending paragraph into its own Content item first, and every one of
\* these but the list-item line closes the open list first.
C31_BlockLineFlushesAnywhere ==
    [][(AtLine /\ LineShape \in {"title", "header", "image", "table", "fence", "list_item"}) =>
          /\ ParagraphFlushedFirst
          /\ LineShape # "list_item" => ListClosedFirst]_vars

\* The same for the lines the scan handles as what they look like: a table
\* line and a code fence anywhere, the four other shapes outside a code block.
BlockLineFlushesOutsideCode ==
    [][(/\ AtLine
        /\ \/ LineShape \in {"table", "fence"}
           \/ LineShape \in {"title", "header", "image", "list_item"} /\ ~in_code_block) =>
          /\ ParagraphFlushedFirst
          /\ LineShape # "list_item" => ListClosedFirst]_vars

\* The positions of the body items of one type, and the n-th of them.
BodyIndices(t) == {k \in 1..Len(Body) : Body[k].type = t}
NthOf(S, n) == CHOOSE k \in S : Cardinality({j \in S : j < k}) = n - 1

\* C33: the flat fields are a projection of body: content and content_types
\* are the texts and the content types of the Content items of body in body
\* order, of equal length, lists is the item lists of the List items of body in
\* body order, and a Table item appears in none of the three.
C33_FlatFieldsProjectBody ==
    pc = "done" =>
        LET cs == BodyIndices("content")
            ls == BodyIndices("list")
        IN  /\ Len(slide_data.content) = Cardinality(cs)
            /\ Len(slide_data.content_types) = Len(slide_data.content)
            /\ \A n \in 1..Cardinality(cs) :
                  /\ slide_data.content[n] = Body[NthOf(cs, n)].text
                  /\ slide_data.content_types[n] = Body[NthOf(cs, n)].content_type
            /\ Len(slide_data.lists) = Cardinality(ls)
            /\ \A n \in 1..Cardinality(ls) :
                  slide_data.lists[n] = Body[NthOf(ls, n)].items

\* A returned slide whose body holds a sub-heading, a list and a table.
C33_Witness ==
    /\ pc = "done"
    /\ BodyIndices("table") # {}
    /\ BodyIndices("list") # {}
    /\ \E k \in BodyIndices("content") : Body[k].content_type # "text"

\* A line boundary of the scan: before the first line, between two lines, and
\* after the last line before the end of the parse.
LineBoundary == pc = "scan"

\* C34: at every line boundary of the scan in_list is true exactly when
\* current_list is non-empty, and a pending paragraph and an open list never
\* exist at the same time.
C34_ListFlagAgreesAndExcludesParagraph ==
    LineBoundary =>
        /\ in_list <=> current_list # <<>>
        /\ ~(current_paragraph # <<>> /\ in_list)

\* The two halves on their own.
ListFlagAgrees == LineBoundary => (in_list <=> current_list # <<>>)
ParagraphExcludesList == LineBoundary => ~(current_paragraph # <<>> /\ in_list)

\* A boundary of the scan with an open list that follows a flushed paragraph.
C34_Witness ==
    /\ LineBoundary
    /\ in_list
    /\ Len(current_list) = 2
    /\ \E k \in 1..Len(Body) : Body[k].type = "content"

\* C35: body never contains a degenerate item: every List item has at least
\* one entry and every entry is a non-empty string, and every Content item has
\* a non-empty text.
C35_NoDegenerateBodyItem ==
    \A k \in 1..Len(Body) :
        /\ Body[k].type = "list" =>
              /\ Body[k].items # <<>>
              /\ \A n \in 1..Len(Body[k].items) : Body[k].items[n] # <<>>
        /\ Body[k].type = "content" => Body[k].text # <<>>

\* A returned slide with a sub-heading, a paragraph from a table run that did
\* not parse, and a list whose item was continued.
C35_Witness ==
    /\ pc = "done"
    /\ \E k \in 1..Len(Body) : Body[k].type = "list" /\ Len(Body[k].items[1]) > 1
    /\ \E k \in 1..Len(Body) : Body[k].type = "content"

\* The lines of a table run that are rows, in their order.
RowLinesOf(raw) == SelectSeq(raw, LAMBDA l : ~is_table_separator(strip(l)))

\* The rows a Table shows: its header row, then its data rows.
ShownRows(t) == (IF t.has_header THEN <<t.headers>> ELSE <<>>) \o t.rows

\* Every row line of the run is a shown row, in source order; a shown row is
\* the cells of its line, possibly padded.
TableKeepsRows(t) ==
    /\ Len(ShownRows(t)) = Len(RowLinesOf(t.raw))
    /\ \A n \in 1..Len(ShownRows(t)) :
          startswith(ShownRows(t)[n], parse_table_row(RowLinesOf(t.raw)[n]))

\* C37: when a run of table lines parses, every row line of the run that is no
\* separator appears in the Table, as the header row or as one of the data
\* rows, in source order.
C37_TableKeepsEveryRowLine ==
    \A k \in 1..Len(Body) : Body[k].type = "table" => TableKeepsRows(Body[k].table)

\* The same for the runs of the shape "at most one row, the separator, rows".
PlainRun(raw) ==
    /\ \E s \in {1, 2} : s <= Len(raw) /\ is_table_separator(strip(raw[s]))
    /\ Cardinality({n \in 1..Len(raw) : is_table_separator(strip(raw[n]))}) = 1

PlainRunKeepsEveryRowLine ==
    \A k \in 1..Len(Body) :
        (Body[k].type = "table" /\ PlainRun(Body[k].table.raw)) =>
            TableKeepsRows(Body[k].table)

\* C38: every Table item of body has a header row or at least one data row; a
\* line that is only a separator row never produces a table on its own.
C38_TableHasHeaderOrRow ==
    \A k \in 1..Len(Body) :
        Body[k].type = "table" =>
            Body[k].table.has_header \/ Body[k].table.rows # <<>>

\* A Table of a run with one separator, in its first or second line, and at
\* least one row line has a header row or a data row.
TableWithRowLineHasRow ==
    \A k \in 1..Len(Body) :
        (Body[k].type = "table" /\ PlainRun(Body[k].table.raw)
                                /\ RowLinesOf(Body[k].table.raw) # <<>>) =>
            Body[k].table.has_header \/ Body[k].table.rows # <<>>

----------------------------------------------------------------------------
(* parse_table and parse_table_alignment called on their own               *)
(* (src/src/presenter/parsers/tables.py)                                   *)

\* Longest block of lines handed to parse_table.
MaxTableLines == 3

\* Most cells of a separator row handed to parse_table_alignment.
MaxSeparatorCells == 3

\* Lines of one, two and three cells, a blank line, and separator rows of one
\* and of two cells.
TableLineSet ==
    { Blank, <<"a">>, <<"a", "|", "b">>, <<"a", "|", "b", "|", "c">>,
      <<"-", "-", "-">>, <<":", "-", "-", "-", ":", "|", "-", "-", "-", ":">> }

TableBlocks == UNION {[1..n -> TableLineSet] : n \in 0..MaxTableLines}

SeparatorCellSet ==
    { <<"-", "-", "-">>, <<":", "-", "-", "-">>, <<"-", "-", "-", ":">>,
      <<":", "-", "-", "-", ":">> }

SeparatorCells == UNION {[1..n -> SeparatorCellSet] : n \in 1..MaxSeparatorCells}

\* The separator row written from its cells, with or without spaces around
\* each cell and with or without the outer pipes.
separator_row(cells, padded, outer) ==
    LET cell(k) == IF padded THEN SP \o cells[k] \o SP ELSE cells[k]
        inner == join([k \in 1..Len(cells) |-> cell(k)], <<"|">>)
    IN  IF outer THEN <<"|">> \o inner \o <<"|">> ELSE inner

\* The variables of parse_slide_content, which these calls leave alone.
slide_vars == <<src, lines, i, pc, slide_data, current_list, in_list, in_code_block,
                current_code_block, code_block_language, current_paragraph, firsts>>

\* No call of parse_slide_content is under way.
NoSlide ==
    /\ src = <<>>
    /\ lines = <<>>
    /\ i = 1
    /\ pc = "idle"
    /\ slide_data = <<>>
    /\ current_list = <<>>
    /\ in_list = FALSE
    /\ in_code_block = FALSE
    /\ current_code_block = <<>>
    /\ code_block_language = <<>>
    /\ current_paragraph = <<>>
    /\ firsts = <<>>

Returned(value) == [pc |-> "return", value |-> value]
Raised(exc) == [pc |-> "raise", exc |-> exc]

InitTables ==
    /\ NoSlide
    /\ \/ \E t \in TableBlocks : call = [fn |-> "parse_table", table_lines |-> t]
       \/ \E c \in SeparatorCells : \E padded \in BOOLEAN : \E outer \in BOOLEAN :
             call = [fn |-> "parse_table_alignment",
                     separator |-> separator_row(c, padded, outer),
                     cells |-> c]
    /\ frame = [pc |-> "call"]

ParseTable ==
    /\ call.fn = "parse_table"
    /\ frame.pc = "call"
    /\ LET t == parse_table(call.table_lines)
       IN  frame' = IF t.raised # "" THEN Raised(t.raised) ELSE Returned(t)
    /\ UNCHANGED <<call, slide_vars>>

ParseTableAlignment ==
    /\ call.fn = "parse_table_alignment"
    /\ frame.pc = "call"
    /\ frame' = Returned(parse_table_alignment(call.separator))
    /\ UNCHANGED <<call, slide_vars>>

NextTables ==
    \/ ParseTable
    \/ ParseTableAlignment

SpecTables == InitTables /\ [][NextTables]_vars

\* C11: in every table that parse_table returns, every row has as many cells
\* as there are alignments, and so has the header row when there is one.
C11_ColumnsAgree ==
    (call.fn = "parse_table" /\ frame.pc = "return") =>
        LET t == frame.value
        IN  /\ \A r \in 1..Len(t.rows) : Len(t.rows[r]) = Len(t.alignments)
            /\ t.has_header => Len(t.headers) = Len(t.alignments)

\* C12: parse_table raises TableParseError exactly when no line of the block
\* is a separator row, and returns a table for every block that has one.
C12_RaisesIffNoSeparator ==
    (call.fn = "parse_table" /\ frame.pc # "call") =>
        LET none == \A k \in 1..Len(call.table_lines) :
                        ~is_table_separator(strip(call.table_lines[k]))
        IN  /\ none => frame = Raised("TableParseError")
            /\ ~none => frame.pc = "return"

\* A block of two or more lines without a separator row has been refused.
C12_Witness ==
    /\ call.fn = "parse_table"
    /\ frame.pc = "raise"
    /\ Len(call.table_lines) >= 2

\* C13: parse_table_alignment returns one alignment per cell of the separator
\* row, in column order: "center" for a colon at both ends, "right" for a colon
\* at the right end only, "left" otherwise.
C13_AlignmentFromColons ==
    (call.fn = "parse_table_alignment" /\ frame.pc = "return") =>
        /\ Len(frame.value) = Len(call.cells)
        /\ \A k \in 1..Len(call.cells) :
              LET c == call.cells[k]
                  first == c[1] = ":"
                  last == c[Len(c)] = ":"
              IN  frame.value[k] = IF first /\ last THEN "center"
                                   ELSE IF last THEN "right"
                                   ELSE "left"

\* A row of three cells, the first with a colon at the left end only and the
\* last with a colon at the right end only, has been read.
C13_Witness ==
    /\ call.fn = "parse_table_alignment"
    /\ frame.pc = "return"
    /\ Len(call.cells) = 3
    /\ call.cells[1] = <<":", "-", "-", "-">>
    /\ call.cells[3] = <<"-", "-", "-", ":">>

----------------------------------------------------------------------------
(* parse_markdown_slides (src/src/presenter/parsers/slides.py, lines 8-47)  *)

\* Longest document handed to parse_markdown_slides, in lines.
MaxDocLines == 3

CR == "\r"
Dashes == <<"-", "-", "-">>

\* A blank line, two text lines (one with spaces around it), the separator
\* alone and with a space and a tab around it, a table separator row, and the
\* separator followed by a carriage return.
DocLineSet ==
    { Blank, <<"a">>, <<" ", "b", " ">>, Dashes, <<" ">> \o Dashes \o <<"\t">>,
      <<"|">> \o Dashes \o <<"|">>, Dashes \o <<CR>> }

DocLines == UNION {[1..n -> DocLineSet] : n \in 1..MaxDocLines}

RECURSIVE blank_run(_)
blank_run(s) == IF s # <<>> /\ IsSpace(Head(s)) THEN 1 + blank_run(Tail(s)) ELSE 0

\* A line test that looks for the separator anywhere in the line.
contains_separator(line, separator) ==
    \E k \in 1..(Len(line) - Len(separator) + 1) :
        SubSeq(line, k, k + Len(separator) - 1) = separator

\* ^[ \t]*SEPARATOR[ \t]*$ under re.MULTILINE, on one line of the text: ^ and $
\* match next to "\n" and at the two ends of the text only.
matches_separator_pattern(line, separator) ==
    LET a == slice_from(line, blank_run(line))
    IN  /\ startswith(a, separator)
        /\ LET b == slice_from(a, Len(separator))
           IN  blank_run(b) = Len(b)

\* re.split(separator_pattern, markdown_content, flags=re.MULTILINE): ls is
\* what is left of the lines of the text, cur the piece since the last match.
\* A match takes the line and leaves the "\n" on either side of it to the
\* neighbouring pieces.
RECURSIVE re_split_lines(_, _, _, _)
re_split_lines(ls, separator, cur, out) ==
    IF ls = <<>> THEN Append(out, cur)
    ELSE LET nl == IF Len(ls) > 1 THEN NL ELSE <<>>
         IN  IF matches_separator_pattern(Head(ls), separator)
             THEN re_split_lines(Tail(ls), separator, nl, Append(out, cur))
             ELSE re_split_lines(Tail(ls), separator, cur \o Head(ls) \o nl, out)

re_split(markdown_content, separator) ==
    re_split_lines(split(markdown_content, "\n"), separator, <<>>, <<>>)

\* A clean-up that strips every piece and keeps the empty ones.
cleaned_keeps_empty(slides) == strip_each(slides)

\* The loop of lines 41-45: every piece stripped, the empty ones left out.
cleaned_slides(slides) == SelectSeq(strip_each(slides), LAMBDA t : t # <<>>)

parse_markdown_slides(markdown_content, separator) ==
    cleaned_slides(re_split(markdown_content, separator))

\* doc_lines is history, the lines the text was written from.
InitSlides ==
    /\ NoSlide
    /\ \E d \in DocLines :
          call = [fn |-> "parse_markdown_slides",
                  markdown_content |-> join(d, NL),
                  separator |-> Dashes,
                  doc_lines |-> d]
    /\ frame = [pc |-> "call"]

ParseMarkdownSlides ==
    /\ call.fn = "parse_markdown_slides"
    /\ frame.pc = "call"
    /\ frame' = Returned(parse_markdown_slides(call.markdown_content, call.separator))
    /\ UNCHANGED <<call, slide_vars>>

NextSlides == ParseMarkdownSlides

SpecSlides == InitSlides /\ [][NextSlides]_vars

\* What the claims read off the document.
SlidesReturned == call.fn = "parse_markdown_slides" /\ frame.pc = "return"

\* The line is the separator alone, with spaces and tabs at most around it.
SeparatorAlone(l) ==
    \E a \in 0..Len(l) : \E b \in 0..Len(l) :
        /\ a + Len(call.separator) + b = Len(l)
        /\ \A k \in 1..a : l[k] \in {" ", "\t"}
        /\ SubSeq(l, a + 1, a + Len(call.separator)) = call.separator
        /\ \A k \in (Len(l) - b + 1)..Len(l) : l[k] \in {" ", "\t"}

TableSeparatorRow == <<"|">> \o Dashes \o <<"|">>

\* Slide text t holds line l, right after line before when there is one.
HoldsLines(t, before, l) ==
    LET ls == split(t, "\n")
    IN  \E k \in 1..Len(ls) :
            /\ ls[k] = l
            /\ before # <<>> => (k > 1 /\ ls[k - 1] = before)

\* C14: the document is split at separator-alone lines only, so there is at
\* most one slide more than there are such lines, and a table separator row
\* stays inside one slide together with the text line above it.
C14_SplitsAtSeparatorLinesOnly ==
    SlidesReturned =>
        LET d == call.doc_lines
        IN  /\ Len(frame.value) <= 1 + Cardinality({k \in 1..Len(d) : SeparatorAlone(d[k])})
            /\ \A k \in 1..Len(d) :
                  d[k] = TableSeparatorRow =>
                      \E n \in 1..Len(frame.value) :
                          HoldsLines(frame.value[n],
                                     IF k > 1 /\ d[k - 1] = <<"a">> THEN <<"a">> ELSE <<>>,
                                     d[k])

\* A document with a text line, a table separator row under it and a
\* separator line has been split.
C14_Witness ==
    /\ SlidesReturned
    /\ \E k \in 2..Len(call.doc_lines) :
          call.doc_lines[k] = TableSeparatorRow /\ call.doc_lines[k - 1] = <<"a">>
    /\ \E k \in 1..Len(call.doc_lines) : SeparatorAlone(call.doc_lines[k])

NonWhitespace(s) == SelectSeq(s, LAMBDA c : c \notin {" ", "\t", "\n", CR})

\* The characters of the lines from k on that are not separator-alone lines.
RECURSIVE TextOutsideSeparators(_, _)
TextOutsideSeparators(d, k) ==
    IF k > Len(d) THEN <<>>
    ELSE (IF SeparatorAlone(d[k]) THEN <<>> ELSE d[k]) \o TextOutsideSeparators(d, k + 1)

\* C15: the returned slide texts are non-empty and have no whitespace at
\* either end; read one after the other they are the text of the document
\* outside its separator lines, in document order; a document of whitespace
\* and separator lines only yields the empty list.
C15_OrderedStrippedNonEmpty ==
    SlidesReturned =>
        LET v == frame.value
            d == call.doc_lines
        IN  /\ \A n \in 1..Len(v) :
                  /\ v[n] # <<>>
                  /\ v[n][1] \notin {" ", "\t", "\n", CR}
                  /\ v[n][Len(v[n])] \notin {" ", "\t", "\n", CR}
            /\ NonWhitespace(join(v, <<>>)) = NonWhitespace(TextOutsideSeparators(d, 1))
            /\ (\A k \in 1..Len(d) : SeparatorAlone(d[k]) \/ NonWhitespace(d[k]) = <<>>)
                  => v = <<>>

\* A document of two or more lines, all blank or separator lines and one of
\* them a separator line, has returned no slide.
C15_Witness ==
    /\ SlidesReturned
    /\ frame.value = <<>>
    /\ Len(call.doc_lines) >= 2
    /\ \E k \in 1..Len(call.doc_lines) : SeparatorAlone(call.doc_lines[k])

\* The slide texts joined with the separator on a line of its own.
Rejoined(v, separator) == join(v, NL \o separator \o NL)

----------------------------------------------------------------------------
(* MarkdownToPowerPoint.convert (src/src/presenter/converter.py)           *)

\* self.slide_separator
slide_separator == Dashes

\* A blank line, a level-1 heading, a level-2 heading, a text line and the
\* separator.
ConvertLineSet ==
    { Blank, <<"#", " ", "A">>, <<"#", "#", " ", "c">>, <<"b">>, Dashes }

ConvertDocs == UNION {[1..n -> ConvertLineSet] : n \in 1..MaxDocLines}

\* s.split(sep) for a separator of any length: every occurrence splits,
\* wherever in a line it is.
RECURSIVE str_split(_, _, _)
str_split(s, sep, cur) ==
    IF s = <<>> THEN <<cur>>
    ELSE IF startswith(s, sep)
         THEN <<cur>> \o str_split(slice_from(s, Len(sep)), sep, <<>>)
    ELSE str_split(Tail(s), sep, Append(cur, Head(s)))

\* MarkdownToPowerPoint.parse_markdown_slides: the clean-up loop is the one of
\* parsers/slides.py.
converter_parse_markdown_slides(markdown_content) ==
    cleaned_slides(str_split(markdown_content, slide_separator, <<>>))

\* A check that lets an empty list of slides through.
no_slides_never(slides_content) == FALSE

\* not slides_content
no_slides(slides_content) == slides_content = <<>>

\* A test that forgets the index of the slide.
is_title_slide_any_index(index, slide_content) ==
    startswith(strip(slide_content), <<"#", " ">>)

\* index == 0 and slide_content.strip().startswith("# ")
is_title_slide(index, slide_content) ==
    index = 0 /\ startswith(strip(slide_content), <<"#", " ">>)

\* add_slide_to_presentation, as far as the list of slides goes: a slide of
\* layout 0 (Title Slide) or 1 (Title and Content) is appended; text is
\* history, the slide text it was made from.
add_slide_to_presentation(presentation, slide_content, title_slide) ==
    Append(presentation, [layout |-> IF title_slide THEN 0 ELSE 1, text |-> slide_content])

InitConvert ==
    /\ NoSlide
    /\ \/ call = [fn |-> "convert", markdown_file |-> [exists |-> FALSE]]
       \/ \E d \in ConvertDocs :
             call = [fn |-> "convert",
                     markdown_file |-> [exists |-> TRUE, content |-> join(d, NL)]]
    /\ frame = [pc |-> "call", exc |-> "", markdown_content |-> <<>>,
                slides_content |-> <<>>, index |-> 0, presentation |-> <<>>,
                saved |-> FALSE]

\* Lines 1465-1466: open and read the markdown file.
ConvertOpen ==
    /\ call.fn = "convert"
    /\ frame.pc = "call"
    /\ frame' = IF call.markdown_file.exists
                THEN [frame EXCEPT !.pc = "parse",
                                   !.markdown_content = call.markdown_file.content]
                ELSE [frame EXCEPT !.pc = "raise", !.exc = "FileNotFoundError"]
    /\ UNCHANGED <<call, slide_vars>>

\* Lines 1469-1472: split into slides, refuse an empty list.
ConvertParse ==
    /\ call.fn = "convert"
    /\ frame.pc = "parse"
    /\ LET slides_content == converter_parse_markdown_slides(frame.markdown_content)
       IN  frame' = IF no_slides(slides_content)
                    THEN [frame EXCEPT !.pc = "raise", !.exc = "ValueError"]
                    ELSE [frame EXCEPT !.pc = "loop", !.slides_content = slides_content]
    /\ UNCHANGED <<call, slide_vars>>

\* Lines 1478-1482: one turn of the loop over the slides.
ConvertSlide ==
    /\ call.fn = "convert"
    /\ frame.pc = "loop"
    /\ frame.index < Len(frame.slides_content)
    /\ LET slide_content == frame.slides_content[frame.index + 1]
       IN  frame' = [frame EXCEPT
                        !.presentation =
                            add_slide_to_presentation(@, slide_content,
                                is_title_slide(frame.index, slide_content)),
                        !.index = @ + 1]
    /\ UNCHANGED <<call, slide_vars>>

\* Lines 1485-1486: save the presentation and return.
ConvertSave ==
    /\ call.fn = "convert"
    /\ frame.pc = "loop"
    /\ frame.index = Len(frame.slides_content)
    /\ frame' = [frame EXCEPT !.saved = TRUE, !.pc = "return"]
    /\ UNCHANGED <<call, slide_vars>>

NextConvert ==
    \/ ConvertOpen
    \/ ConvertParse
    \/ ConvertSlide
    \/ ConvertSave

SpecConvert == InitConvert /\ [][NextConvert]_vars

\* The file exists and its text yields no slide.
YieldsNoSlide ==
    /\ call.fn = "convert"
    /\ call.markdown_file.exists
    /\ converter_parse_markdown_slides(call.markdown_file.content) = <<>>

\* C17: when the document yields zero slides, convert never adds a slide and
\* never saves, and the only way it ends is by raising ValueError.
C17_NoSlidesRaisesBeforeAddAndSave ==
    YieldsNoSlide =>
        /\ frame.presentation = <<>>
        /\ ~frame.saved
        /\ \/ frame.pc \in {"call", "parse"}
           \/ frame.pc = "raise" /\ frame.exc = "ValueError"

\* convert has raised ValueError on a file that exists.
C17_Witness ==
    /\ YieldsNoSlide
    /\ frame.pc = "raise"
    /\ frame.exc = "ValueError"

\* C19: a slide of the presentation has the title-slide layout exactly when
\* it is the first slide and its text starts with "# ".
C19_TitleLayoutOnlyFirstHeading ==
    call.fn = "convert" =>
        \A n \in 1..Len(frame.presentation) :
            LET s == frame.presentation[n]
            IN  s.layout = 0 <=>
                    (n = 1 /\ Len(s.text) >= 2 /\ s.text[1] = "#" /\ s.text[2] = " ")

\* The presentation was saved with a title slide first and, after it, a slide
\* whose text starts with "# " too.
C19_Witness ==
    /\ call.fn = "convert"
    /\ frame.saved
    /\ Len(frame.presentation) >= 2
    /\ frame.presentation[1].layout = 0
    /\ startswith(frame.presentation[2].text, <<"#", " ">>)

\* C40: the two slide splitters agree: for every document
\* MarkdownToPowerPoint.parse_markdown_slides returns the list of slide texts
\* that parsers.slides.parse_markdown_slides returns with the separator "---".
C40_SplittersAgree ==
    (SlidesReturned /\ call.separator = slide_separator) =>
        frame.value = converter_parse_markdown_slides(call.markdown_content)

\* The two agree on the documents in which the separator occurs only as a
\* line of its own.
SplittersAgreeOnSeparatorLines ==
    (/\ SlidesReturned
     /\ call.separator = slide_separator
     /\ \A k \in 1..Len(call.doc_lines) :
           \/ SeparatorAlone(call.doc_lines[k])
           \/ ~contains_separator(call.doc_lines[k], slide_separator)) =>
        frame.value = converter_parse_markdown_slides(call.markdown_content)

----------------------------------------------------------------------------
(* CmdLine.create (src/src/presenter/main.py)                              *)

\* Most positional file names on the command line.
MaxFiles == 3

FileNameSet == {"a.md", "b.md", "c.md"}

\* nargs="+" is checked by the parser, so a command line without a file name
\* can be typed too.
CommandLines == UNION {[1..n -> FileNameSet] : n \in 0..MaxFiles}

\* The value of --output: "" when the option is not given.
OutputPaths == {"", "out"}

\* Config(**info), as far as the files go.
Config(filenames, output_path, output_file) ==
    [filenames |-> filenames, output_path |-> output_path, output_file |-> output_file]

\* A mode detection without the error branch: the command line falls through
\* to the fallback.
detect_mode_without_error(filenames, output_path) ==
    IF Len(filenames) = 2 /\ output_path = ""
    THEN [exit |-> FALSE, cfg |-> Config(<<filenames[1]>>, output_path, filenames[2])]
    ELSE [exit |-> FALSE, cfg |-> Config(filenames, output_path, "")]

\* Lines 188-217: the branches in the order of the code.
detect_mode(filenames, output_path) ==
    IF Len(filenames) = 2 /\ output_path = ""
    THEN [exit |-> FALSE, cfg |-> Config(<<filenames[1]>>, output_path, filenames[2])]
    ELSE IF Len(filenames) >= 1 /\ output_path # ""
    THEN [exit |-> FALSE, cfg |-> Config(filenames, output_path, "")]
    ELSE IF Len(filenames) = 1 /\ output_path = ""
    THEN [exit |-> FALSE, cfg |-> Config(filenames, "", "")]
    ELSE IF Len(filenames) > 1 /\ output_path = ""
    THEN [exit |-> TRUE]
    ELSE [exit |-> FALSE, cfg |-> Config(filenames, output_path, "")]

InitCreate ==
    /\ NoSlide
    /\ \E f \in CommandLines : \E o \in OutputPaths :
          call = [fn |-> "create", filenames |-> f, output_path |-> o]
    /\ frame = [pc |-> "call"]

\* Lines 115-218: parse the arguments and detect the mode.  The parser exits
\* with code 2 when no file name is given; the error branch exits with 1.
Create ==
    /\ call.fn = "create"
    /\ frame.pc = "call"
    /\ frame' =
         IF Len(call.filenames) = 0 THEN [pc |-> "exit", code |-> 2]
         ELSE LET m == detect_mode(call.filenames, call.output_path)
              IN  IF m.exit THEN [pc |-> "exit", code |-> 1]
                  ELSE [pc |-> "create_presentation", cfg |-> m.cfg]
    /\ UNCHANGED <<call, slide_vars>>

\* Lines 220-222: create_presentation(cfg) returns 0, or raises what the
\* files make it raise.
CreatePresentation ==
    /\ call.fn = "create"
    /\ frame.pc = "create_presentation"
    /\ \/ frame' = [pc |-> "return", value |-> 0, cfg |-> frame.cfg]
       \/ \E exc \in {"FileNotFoundError", "ValueError"} :
             frame' = [pc |-> "raise", exc |-> exc, cfg |-> frame.cfg]
    /\ UNCHANGED <<call, slide_vars>>

NextCreate ==
    \/ Create
    \/ CreatePresentation

SpecCreate == InitCreate /\ [][NextCreate]_vars

\* create_presentation is not called: the command is still to run or has
\* exited with code 1.
ExitsWithoutCreating == frame.pc = "call" \/ frame = [pc |-> "exit", code |-> 1]

\* C18 as claimed: with more than one file name and no --output the command
\* exits with an error and create_presentation is never called.
C18_ManyFilesWithoutOutputExit ==
    (call.fn = "create" /\ Len(call.filenames) > 1 /\ call.output_path = "")
        => ExitsWithoutCreating

\* C18, amended: with three or more file names and no --output the command
\* exits with code 1 and create_presentation is never called; with exactly
\* two, create_presentation is called with the first as the only input file
\* and the second as the output file.
C18_ThreeOrMoreWithoutOutputExit ==
    (call.fn = "create" /\ call.output_path = "") =>
        /\ Len(call.filenames) > 2 => ExitsWithoutCreating
        /\ (Len(call.filenames) = 2 /\ frame.pc # "call") =>
              /\ frame.pc \in {"create_presentation", "return", "raise"}
              /\ frame.cfg.filenames = <<call.filenames[1]>>
              /\ frame.cfg.output_file = call.filenames[2]

\* The command has exited on three file names without --output.
C18_Witness ==
    /\ call.fn = "create"
    /\ call.output_path = ""
    /\ Len(call.filenames) = 3
    /\ frame = [pc |-> "exit", code |-> 1]

----------------------------------------------------------------------------
(* The speaker notes of parse_slide_content                                *)
(* (src/src/presenter/parsers/slides.py, lines 81-101)                     *)

\* Longest slide text with comments, in segments.
MaxSegments == 3

CommentOpen == <<"<", "!", "-", "-">>
CommentClose == <<"-", "-", ">">>

\* The segments a slide text is written from, as tokens: "<!--" and "-->"
\* stand for the two delimiters, every other token is one character.  A
\* comment, a comment with spaces around its body, a comment of one space, an
\* empty comment, a comment of two lines, a text character, a line end, an
\* opener and a closer on their own.
SegmentSet ==
    { <<"<!--", "n", "-->">>, <<"<!--", " ", "m", " ", "-->">>, <<"<!--", " ", "-->">>,
      <<"<!--", "-->">>, <<"<!--", "n", "\n", "m", "-->">>, <<"a">>, <<"\n">>,
      <<"<!--">>, <<"-->">> }

Segments == UNION {[1..n -> SegmentSet] : n \in 1..MaxSegments}

RECURSIVE concat(_)
concat(parts) == IF parts = <<>> THEN <<>> ELSE Head(parts) \o concat(Tail(parts))

\* The characters of a sequence of tokens.
token_chars(tokens) ==
    concat([k \in 1..Len(tokens) |->
               IF tokens[k] = "<!--" THEN CommentOpen
               ELSE IF tokens[k] = "-->" THEN CommentClose
               ELSE <<tokens[k]>>])

\* 1-based position of the first sub in s at or after from, 0 when there is none.
find_str(s, sub, from) ==
    LET at == {k \in from..(Len(s) - Len(sub) + 1) : SubSeq(s, k, k + Len(sub) - 1) = sub}
    IN  IF at = {} THEN 0 ELSE CHOOSE k \in at : \A m \in at : k <= m

\* re.search of <!--\s*(.*?)\s*--> (re.DOTALL) in s at or after from: the
\* leftmost opener, the whitespace after it, the shortest body, that is up to
\* the whitespace before the first closer; stop is the position after the match.
comment_search(s, from) ==
    LET start == find_str(s, CommentOpen, from)
        b == start + Len(CommentOpen)
                 + space_run(SubSeq(s, start + Len(CommentOpen), Len(s)))
        e == find_str(s, CommentClose, b)
    IN  IF start = 0 \/ e = 0 THEN [found |-> FALSE]
        ELSE [found |-> TRUE, start |-> start, group1 |-> rstrip(SubSeq(s, b, e - 1)),
              stop |-> e + Len(CommentClose)]

\* [match.group(1) for match in re.finditer(comment_pattern, s, re.DOTALL)]
RECURSIVE comment_groups(_, _)
comment_groups(s, from) ==
    LET m == comment_search(s, from)
    IN  IF ~m.found THEN <<>> ELSE <<m.group1>> \o comment_groups(s, m.stop)

\* re.sub(comment_pattern, "", s, flags=re.DOTALL)
RECURSIVE without_comments(_, _)
without_comments(s, from) ==
    LET m == comment_search(s, from)
    IN  IF ~m.found THEN SubSeq(s, from, Len(s))
        ELSE SubSeq(s, from, m.start - 1) \o without_comments(s, m.stop)

\* A loop that appends every note, the empty ones too.
collect_notes_keeps_empty(groups) == strip_each(groups)

\* Lines 88-91: the notes that are not empty once stripped.
collect_notes(groups) == SelectSeq(strip_each(groups), LAMBDA t : t # <<>>)

\* tokens is history, the tokens the text was written from.
InitNotes ==
    /\ NoSlide
    /\ \E g \in Segments :
          call = [fn |-> "parse_slide_content",
                  slide_markdown |-> token_chars(concat(g)),
                  tokens |-> concat(g)]
    /\ frame = [pc |-> "call"]

\* Lines 82-101: the comments are collected and removed.
ExtractNotes ==
    /\ call.fn = "parse_slide_content"
    /\ frame.pc = "call"
    /\ frame' =
         [pc |-> "scan",
          speaker_notes |-> join(collect_notes(comment_groups(call.slide_markdown, 1)),
                                 NL \o NL),
          slide_markdown_clean |-> without_comments(call.slide_markdown, 1)]
    /\ UNCHANGED <<call, slide_vars>>

NextNotes == ExtractNotes

SpecNotes == InitNotes /\ [][NextNotes]_vars

\* What the claim reads off the tokens: a comment runs from an opener to the
\* first closer after it; bodies is the list of the comment bodies met so far,
\* body the body of the comment that is open, inside whether one is open.
RECURSIVE CommentBodies(_, _, _, _)
CommentBodies(tokens, inside, body, bodies) ==
    IF tokens = <<>> THEN bodies
    ELSE LET t == Head(tokens)
         IN  IF ~inside
             THEN CommentBodies(Tail(tokens), t = "<!--", <<>>, bodies)
             ELSE IF t = "-->"
                  THEN CommentBodies(Tail(tokens), FALSE, <<>>, Append(bodies, body))
             ELSE CommentBodies(Tail(tokens), TRUE, body \o token_chars(<<t>>), bodies)

\* The body without the spaces and line ends at its two ends.
RECURSIVE Trimmed(_)
Trimmed(b) ==
    IF b = <<>> THEN b
    ELSE IF Head(b) \in {" ", "\n"} THEN Trimmed(Tail(b))
    ELSE IF b[Len(b)] \in {" ", "\n"} THEN Trimmed(SubSeq(b, 1, Len(b) - 1))
    ELSE b

\* The notes expected of a list of bodies: the trimmed bodies that are not
\* empty, a blank line between one and the next.
RECURSIVE ExpectedNotes(_)
ExpectedNotes(bodies) ==
    IF bodies = <<>> THEN <<>>
    ELSE LET rest == ExpectedNotes(Tail(bodies))
             first == Trimmed(Head(bodies))
         IN  IF first = <<>> THEN rest
             ELSE IF rest = <<>> THEN first
             ELSE first \o <<"\n", "\n">> \o rest

\* C20: speaker_notes is the trimmed bodies of the comments of the slide, in
\* source order, a blank line between them, without the comments whose body
\* is empty or whitespace; it is the empty string when there is none.
C20_NotesAreTrimmedCommentBodies ==
    (call.fn = "parse_slide_content" /\ frame.pc = "scan") =>
        frame.speaker_notes = ExpectedNotes(CommentBodies(call.tokens, FALSE, <<>>, <<>>))

\* A slide with two comments of different non-empty bodies and an empty
\* comment has been read.
C20_Witness ==
    /\ call.fn = "parse_slide_content"
    /\ frame.pc = "scan"
    /\ LET bodies == CommentBodies(call.tokens, FALSE, <<>>, <<>>)
       IN  /\ Len(bodies) = 3
           /\ \E j \in 1..3 : Trimmed(bodies[j]) = <<>>
           /\ \E j \in 1..3 : \E k \in 1..3 :
                 /\ Trimmed(bodies[j]) # <<>>
                 /\ Trimmed(bodies[k]) # <<>>
                 /\ Trimmed(bodies[j]) # Trimmed(bodies[k])

\* ---------------------------------------------------------------------------
\* parsers/code.py: get_syntax_color and tokenize_code
\* ---------------------------------------------------------------------------

\* The longest code text written character by character.
MaxCodeLen == 3

letters ==
    [upper |-> <<"A", "B", "C", "D", "E", "F", "G", "H", "I", "J", "K", "L", "M",
                 "N", "O", "P", "Q", "R", "S", "T", "U", "V", "W", "X", "Y", "Z">>,
     lower |-> <<"a", "b", "c", "d", "e", "f", "g", "h", "i", "j", "k", "l", "m",
                 "n", "o", "p", "q", "r", "s", "t", "u", "v", "w", "x", "y", "z">>]

\* str.isalpha, str.isalnum and str.isspace of one character
isalpha(c) == \E k \in 1..Len(letters.upper) : c = letters.upper[k] \/ c = letters.lower[k]

isalnum(c) == isalpha(c) \/ IsDigit(c)

isspace(c) == IsWhitespace(c)

\* str.isdigit of a string: not empty and digits only
isdigit(s) == s # <<>> /\ \A k \in 1..Len(s) : IsDigit(s[k])

lower_char(c) ==
    IF \E k \in 1..Len(letters.upper) : c = letters.upper[k]
    THEN letters.lower[CHOOSE k \in 1..Len(letters.upper) : c = letters.upper[k]]
    ELSE c

upper_char(c) ==
    IF \E k \in 1..Len(letters.lower) : c = letters.lower[k]
    THEN letters.upper[CHOOSE k \in 1..Len(letters.lower) : c = letters.lower[k]]
    ELSE c

\* str.lower, str.upper, str.capitalize
lower(s) == [k \in 1..Len(s) |-> lower_char(s[k])]

upper(s) == [k \in 1..Len(s) |-> upper_char(s[k])]

capitalize(s) == [k \in 1..Len(s) |-> IF k = 1 THEN upper_char(s[k]) ELSE lower_char(s[k])]

\* s.replace(".", "", 1)
replace_first_dot(s) ==
    LET at == find(s, ".")
    IN  IF at = 0 THEN s ELSE SubSeq(s, 1, at - 1) \o SubSeq(s, at + 1, Len(s))

RGBColor(r, g, b) == <<r, g, b>>

colors ==
    [keyword  |-> RGBColor(197, 134, 192),
     string   |-> RGBColor(206, 145, 120),
     comment  |-> RGBColor(106, 153, 85),
     number   |-> RGBColor(181, 206, 168),
     function |-> RGBColor(220, 220, 170),
     default  |-> RGBColor(230, 230, 230)]

\* The language tags of the source, a tag being the sequence of its characters.
tag ==
    [python     |-> <<"p", "y", "t", "h", "o", "n">>,
     javascript |-> <<"j", "a", "v", "a", "s", "c", "r", "i", "p", "t">>,
     js         |-> <<"j", "s">>,
     java       |-> <<"j", "a", "v", "a">>,
     go         |-> <<"g", "o">>,
     bash       |-> <<"b", "a", "s", "h">>,
     shell      |-> <<"s", "h", "e", "l", "l">>,
     sql        |-> <<"s", "q", "l">>,
     yaml       |-> <<"y", "a", "m", "l">>,
     json       |-> <<"j", "s", "o", "n">>]

\* The keyword sets of get_syntax_color, a word being the sequence of its characters.
keywords ==
    (tag.python :> {
          <<"d", "e", "f">>, <<"c", "l", "a", "s", "s">>, <<"i", "f">>,
          <<"e", "l", "s", "e">>, <<"e", "l", "i", "f">>, <<"f", "o", "r">>,
          <<"w", "h", "i", "l", "e">>, <<"i", "m", "p", "o", "r", "t">>,
          <<"f", "r", "o", "m">>, <<"r", "e", "t", "u", "r", "n">>, <<"t", "r", "y">>,
          <<"e", "x", "c", "e", "p", "t">>, <<"f", "i", "n", "a", "l", "l", "y">>,
          <<"w", "i", "t", "h">>, <<"a", "s">>, <<"p", "a", "s", "s">>,
          <<"b", "r", "e", "a", "k">>, <<"c", "o", "n", "t", "i", "n", "u", "e">>,
          <<"r", "a", "i", "s", "e">>, <<"l", "a", "m", "b", "d", "a">>, <<"a", "n", "d">>,
          <<"o", "r">>, <<"n", "o", "t">>, <<"i", "n">>, <<"i", "s">>,
          <<"N", "o", "n", "e">>, <<"T", "r", "u", "e">>, <<"F", "a", "l", "s", "e">>,
          <<"y", "i", "e", "l", "d">>, <<"a", "s", "s", "e", "r", "t">>, <<"d", "e", "l">>,
          <<"g", "l", "o", "b", "a", "l">>, <<"n", "o", "n", "l", "o", "c", "a", "l">>,
          <<"a", "s", "y", "n", "c">>, <<"a", "w", "a", "i", "t">>
      })
    @@ (tag.javascript :> {
          <<"f", "u", "n", "c", "t", "i", "o", "n">>, <<"v", "a", "r">>, <<"l", "e", "t">>,
          <<"c", "o", "n", "s", "t">>, <<"i", "f">>, <<"e", "l", "s", "e">>,
          <<"f", "o", "r">>, <<"w", "h", "i", "l", "e">>, <<"d", "o">>,
          <<"s", "w", "i", "t", "c", "h">>, <<"c", "a", "s", "e">>,
          <<"b", "r", "e", "a", "k">>, <<"c", "o", "n", "t", "i", "n", "u", "e">>,
          <<"r", "e", "t", "u", "r", "n">>, <<"t", "r", "y">>, <<"c", "a", "t", "c", "h">>,
          <<"f", "i", "n", "a", "l", "l", "y">>, <<"t", "h", "r", "o", "w">>,
          <<"n", "e", "w">>, <<"t", "h", "i", "s">>, <<"c", "l", "a", "s", "s">>,
          <<"e", "x", "t", "e", "n", "d", "s">>, <<"i", "m", "p", "o", "r", "t">>,
          <<"e", "x", "p", "o", "r", "t">>, <<"d", "e", "f", "a", "u", "l", "t">>,
          <<"a", "s", "y", "n", "c">>, <<"a", "w", "a", "i", "t">>,
          <<"t", "y", "p", "e", "o", "f">>,
          <<"i", "n", "s", "t", "a", "n", "c", "e", "o", "f">>, <<"v", "o", "i", "d">>,
          <<"n", "u", "l", "l">>, <<"u", "n", "d", "e", "f", "i", "n", "e", "d">>,
          <<"t", "r", "u", "e">>, <<"f", "a", "l", "s", "e">>
      })
    @@ (tag.java :> {
          <<"p", "u", "b", "l", "i", "c">>, <<"p", "r", "i", "v", "a", "t", "e">>,
          <<"p", "r", "o", "t", "e", "c", "t", "e", "d">>, <<"s", "t", "a", "t", "i", "c">>,
          <<"f", "i", "n", "a", "l">>, <<"c", "l", "a", "s", "s">>,
          <<"i", "n", "t", "e", "r", "f", "a", "c", "e">>, <<"e", "n", "u", "m">>,
          <<"e", "x", "t", "e", "n", "d", "s">>,
          <<"i", "m", "p", "l", "e", "m", "e", "n", "t", "s">>, <<"i", "f">>,
          <<"e", "l", "s", "e">>, <<"f", "o", "r">>, <<"w", "h", "i", "l", "e">>,
          <<"d", "o">>, <<"s", "w", "i", "t", "c", "h">>, <<"c", "a", "s", "e">>,
          <<"b", "r", "e", "a", "k">>, <<"c", "o", "n", "t", "i", "n", "u", "e">>,
          <<"r", "e", "t", "u", "r", "n">>, <<"t", "r", "y">>, <<"c", "a", "t", "c", "h">>,
          <<"f", "i", "n", "a", "l", "l", "y">>, <<"t", "h", "r", "o", "w">>,
          <<"n", "e", "w">>, <<"t", "h", "i", "s">>, <<"s", "u", "p", "e", "r">>,
          <<"v", "o", "i", "d">>, <<"t", "r", "u", "e">>, <<"f", "a", "l", "s", "e">>,
          <<"n", "u", "l", "l">>, <<"i", "m", "p", "o", "r", "t">>,
          <<"p", "a", "c", "k", "a", "g", "e">>, <<"a", "b", "s", "t", "r", "a", "c", "t">>,
          <<"s", "y", "n", "c", "h", "r", "o", "n", "i", "z", "e", "d">>
      })
    @@ (tag.go :> {
          <<"p", "a", "c", "k", "a", "g", "e">>, <<"i", "m", "p", "o", "r", "t">>,
          <<"f", "u", "n", "c">>, <<"t", "y", "p", "e">>, <<"s", "t", "r", "u", "c", "t">>,
          <<"i", "n", "t", "e", "r", "f", "a", "c", "e">>, <<"i", "f">>,
          <<"e", "l", "s", "e">>, <<"f", "o", "r">>, <<"r", "a", "n", "g", "e">>,
          <<"s", "w", "i", "t", "c", "h">>, <<"c", "a", "s", "e">>,
          <<"d", "e", "f", "a", "u", "l", "t">>, <<"b", "r", "e", "a", "k">>,
          <<"c", "o", "n", "t", "i", "n", "u", "e">>, <<"g", "o", "t", "o">>,
          <<"r", "e", "t", "u", "r", "n">>, <<"d", "e", "f", "e", "r">>, <<"g", "o">>,
          <<"c", "o", "n", "s", "t">>, <<"v", "a", "r">>, <<"m", "a", "k", "e">>,
          <<"n", "e", "w">>, <<"t", "r", "u", "e">>, <<"f", "a", "l", "s", "e">>,
          <<"i", "o", "t", "a">>, <<"n", "i", "l">>, <<"m", "a", "p">>,
          <<"c", "h", "a", "n">>, <<"s", "e", "l", "e", "c", "t">>
      })
    @@ (tag.bash :> {
          <<"i", "f">>, <<"t", "h", "e", "n">>, <<"e", "l", "s", "e">>,
          <<"e", "l", "i", "f">>, <<"f", "i">>, <<"c", "a", "s", "e">>,
          <<"e", "s", "a", "c">>, <<"f", "o", "r">>, <<"w", "h", "i", "l", "e">>,
          <<"u", "n", "t", "i", "l">>, <<"d", "o">>, <<"d", "o", "n", "e">>,
          <<"b", "r", "e", "a", "k">>, <<"c", "o", "n", "t", "i", "n", "u", "e">>,
          <<"f", "u", "n", "c", "t", "i", "o", "n">>, <<"r", "e", "t", "u", "r", "n">>,
          <<"e", "x", "p", "o", "r", "t">>, <<"l", "o", "c", "a", "l">>,
          <<"r", "e", "a", "d", "o", "n", "l", "y">>, <<"d", "e", "c", "l", "a", "r", "e">>,
          <<"u", "n", "s", "e", "t">>, <<"i", "n">>
      })
    @@ (tag.sql :> {
          <<"s", "e", "l", "e", "c", "t">>, <<"f", "r", "o", "m">>,
          <<"w", "h", "e", "r", "e">>, <<"a", "n", "d">>, <<"o", "r">>, <<"n", "o", "t">>,
          <<"i", "n">>, <<"l", "i", "k", "e">>, <<"b", "e", "t", "w", "e", "e", "n">>,
          <<"i", "s">>, <<"n", "u", "l", "l">>, <<"j", "o", "i", "n">>,
          <<"i", "n", "n", "e", "r">>, <<"l", "e", "f", "t">>, <<"r", "i", "g", "h", "t">>,
          <<"f", "u", "l", "l">>, <<"o", "n">>, <<"a", "s">>, <<"g", "r", "o", "u", "p">>,
          <<"b", "y">>, <<"h", "a", "v", "i", "n", "g">>, <<"o", "r", "d", "e", "r">>,
          <<"d", "i", "s", "t", "i", "n", "c", "t">>, <<"i", "n", "s", "e", "r", "t">>,
          <<"i", "n", "t", "o">>, <<"v", "a", "l", "u", "e", "s">>,
          <<"u", "p", "d", "a", "t", "e">>, <<"s", "e", "t">>,
          <<"d", "e", "l", "e", "t", "e">>, <<"c", "r", "e", "a", "t", "e">>,
          <<"t", "a", "b", "l", "e">>, <<"d", "a", "t", "a", "b", "a", "s", "e">>,
          <<"i", "n", "d", "e", "x">>, <<"a", "l", "t", "e", "r">>, <<"d", "r", "o", "p">>,
          <<"t", "r", "u", "n", "c", "a", "t", "e">>, <<"c", "a", "s", "e">>,
          <<"w", "h", "e", "n">>, <<"t", "h", "e", "n">>, <<"e", "n", "d">>
      })
    @@ (tag.yaml :> {
          <<"t", "r", "u", "e">>, <<"f", "a", "l", "s", "e">>, <<"y", "e", "s">>,
          <<"n", "o">>, <<"o", "n">>, <<"o", "f", "f">>, <<"n", "u", "l", "l">>
      })
    @@ (tag.json :> {
          <<"t", "r", "u", "e">>, <<"f", "a", "l", "s", "e">>, <<"n", "u", "l", "l">>
      })

\* token.isdigit() or a leading "-" before digits with one dot at most, or
\* digits with one dot
is_number(token) ==
    \/ isdigit(token)
    \/ startswith(token, <<"-">>) /\ isdigit(replace_first_dot(slice_from(token, 1)))
    \/ isdigit(replace_first_dot(token)) /\ find(token, ".") # 0

get_syntax_color(token, language_tag) ==
    LET stripped == strip(lower(language_tag))
        language == IF stripped = tag.js THEN tag.javascript
                    ELSE IF stripped = tag.shell THEN tag.bash
                    ELSE stripped
    IN  IF \/ startswith(token, <<"\"">>) /\ endswith(token, <<"\"">>)
           \/ startswith(token, <<"'">>) /\ endswith(token, <<"'">>)
        THEN colors.string
        ELSE IF language \in {tag.python, tag.bash, tag.yaml} /\ startswith(token, <<"#">>)
        THEN colors.comment
        ELSE IF language \in {tag.javascript, tag.java, tag.go} /\ startswith(token, <<"/", "/">>)
        THEN colors.comment
        ELSE IF /\ language = tag.sql
                /\ startswith(token, <<"-", "-">>) \/ startswith(token, <<"/", "*">>)
        THEN colors.comment
        ELSE IF is_number(token) THEN colors.number
        ELSE IF language \in DOMAIN keywords /\ lower(token) \in keywords[language]
        THEN colors.keyword
        ELSE IF endswith(token, <<"(">>) \/ endswith(token, <<"(", ")">>)
        THEN colors.function
        ELSE colors.default

supported_languages ==
    {tag.python, tag.javascript, tag.js, tag.java, tag.go,
     tag.bash, tag.shell, tag.sql, tag.yaml, tag.json}

\* A reading of the fallback that looks at the emptiness of the code first.
unsupported_tokens_after_empty_check(code) ==
    IF code = <<>> THEN <<>> ELSE <<[text |-> code, color |-> RGBColor(212, 212, 212)]>>

\* The fallback of an unsupported language: the code as one token.
unsupported_tokens(code) == <<[text |-> code, color |-> RGBColor(212, 212, 212)]>>

\* The inner loops of tokenize_code.  Each gathers the text of one token from
\* position at on (1-based) and answers the text with the position after it.
RECURSIVE whitespace_run(_, _, _)
whitespace_run(code, at, ws) ==
    IF at <= Len(code) /\ isspace(code[at])
    THEN whitespace_run(code, at + 1, Append(ws, code[at]))
    ELSE [text |-> ws, at |-> at]

RECURSIVE string_body(_, _, _, _)
string_body(code, at, quote, string_text) ==
    IF at <= Len(code) /\ code[at] # quote
    THEN IF code[at] = "\\" /\ at + 1 <= Len(code)
         THEN string_body(code, at + 2, quote, string_text \o SubSeq(code, at, at + 1))
         ELSE string_body(code, at + 1, quote, Append(string_text, code[at]))
    ELSE [text |-> string_text, at |-> at]

\* Mutant: the closing quote is stepped over and left out of the token.
string_literal_drops_closing_quote(code, at, quote) ==
    LET body_end == string_body(code, at + 1, quote, <<quote>>)
    IN  [text |-> body_end.text,
         at |-> IF body_end.at <= Len(code) THEN body_end.at + 1 ELSE body_end.at]

string_literal(code, at, quote) ==
    LET body_end == string_body(code, at + 1, quote, <<quote>>)
    IN  IF body_end.at <= Len(code)
        THEN [text |-> Append(body_end.text, code[body_end.at]), at |-> body_end.at + 1]
        ELSE body_end

RECURSIVE line_comment(_, _, _)
line_comment(code, at, comment_text) ==
    IF at <= Len(code) /\ code[at] # "\n"
    THEN line_comment(code, at + 1, Append(comment_text, code[at]))
    ELSE [text |-> comment_text, at |-> at]

RECURSIVE identifier_run(_, _, _)
identifier_run(code, at, token_text) ==
    IF at <= Len(code) /\ (isalnum(code[at]) \/ code[at] = "_")
    THEN identifier_run(code, at + 1, Append(token_text, code[at]))
    ELSE [text |-> token_text, at |-> at]

RECURSIVE number_run(_, _, _)
number_run(code, at, number_text) ==
    IF at <= Len(code) /\ (IsDigit(code[at]) \/ code[at] = ".")
    THEN number_run(code, at + 1, Append(number_text, code[at]))
    ELSE [text |-> number_text, at |-> at]

\* One turn of the while loop: the token that starts at position at.  plain
\* tells the tokens the loop colors itself from those it asks
\* get_syntax_color about.
next_token(code, language_normalized, at) ==
    IF isspace(code[at])
    THEN [run |-> whitespace_run(code, at, <<>>), plain |-> TRUE]
    ELSE IF code[at] = "\""
    THEN [run |-> string_literal(code, at, "\""), plain |-> FALSE]
    ELSE IF code[at] = "'"
    THEN [run |-> string_literal(code, at, "'"), plain |-> FALSE]
    ELSE IF language_normalized \in {tag.python, tag.bash, tag.yaml} /\ code[at] = "#"
    THEN [run |-> line_comment(code, at, <<>>), plain |-> FALSE]
    ELSE IF /\ language_normalized \in {tag.javascript, tag.js, tag.java, tag.go}
            /\ at + 1 <= Len(code)
            /\ SubSeq(code, at, at + 1) = <<"/", "/">>
    THEN [run |-> line_comment(code, at, <<>>), plain |-> FALSE]
    ELSE IF /\ language_normalized = tag.sql
            /\ at + 1 <= Len(code)
            /\ SubSeq(code, at, at + 1) = <<"-", "-">>
    THEN [run |-> line_comment(code, at, <<>>), plain |-> FALSE]
    ELSE IF isalpha(code[at]) \/ code[at] = "_"
    THEN [run |-> identifier_run(code, at, <<>>), plain |-> FALSE]
    ELSE IF IsDigit(code[at])
    THEN [run |-> number_run(code, at, <<>>), plain |-> FALSE]
    ELSE [run |-> [text |-> <<code[at]>>, at |-> at + 1], plain |-> TRUE]

RECURSIVE tokenize_from(_, _, _, _)
tokenize_from(code, language_normalized, at, tokens) ==
    IF at > Len(code) THEN tokens
    ELSE LET t == next_token(code, language_normalized, at)
             color == IF t.plain THEN RGBColor(212, 212, 212)
                      ELSE get_syntax_color(t.run.text, language_normalized)
         IN  tokenize_from(code, language_normalized, t.run.at,
                           Append(tokens, [text |-> t.run.text, color |-> color]))

tokenize_code(code, language_tag) ==
    LET language_normalized == strip(lower(language_tag))
    IN  IF language_normalized \notin supported_languages THEN unsupported_tokens(code)
        ELSE IF code = <<>> THEN <<>>
        ELSE tokenize_from(code, language_normalized, 1, <<>>)

\* The characters code texts are written from: letters that spell a keyword
\* and an identifier, a digit and the dot, the two quotes and the backslash,
\* the comment openers, a bracket, a space and a line end.
CodeAlphabet == {"i", "f", "1", ".", "\"", "'", "\\", "#", "/", "-", "(", " ", "\n"}

CodeTexts == UNION {[1..n -> CodeAlphabet] : n \in 0..MaxCodeLen}

\* Every keyword of every language as the source writes it, in lower case,
\* in upper case and capitalized.
KeywordTexts ==
    UNION {{w, lower(w), upper(w), capitalize(w)} :
              w \in UNION {keywords[l] : l \in DOMAIN keywords}}

\* The supported tags, a supported tag in another case with a space after it,
\* a tag that is not supported and the empty tag.
LanguageTags ==
    supported_languages \cup {<<"B", "a", "s", "h", " ">>, <<"t", "e", "x", "t">>, <<>>}

InitCode ==
    /\ NoSlide
    /\ \E code \in CodeTexts \cup KeywordTexts : \E language \in LanguageTags :
          call = [fn |-> "tokenize_code", code |-> code, language |-> language]
    /\ frame = [pc |-> "call"]

\* Lines 302-480: the call answers the list of tokens.
TokenizeCode ==
    /\ call.fn = "tokenize_code"
    /\ frame.pc = "call"
    /\ frame' = Returned(tokenize_code(call.code, call.language))
    /\ UNCHANGED <<call, slide_vars>>

NextCode == TokenizeCode

SpecCode == InitCode /\ [][NextCode]_vars

\* The default gray of the tokens that tokenize_code colors itself.
DefaultGray == <<212, 212, 212>>

\* The tag of the call is outside the supported set once case and outer
\* spaces are put aside.
UnsupportedTag == strip(lower(call.language)) \notin supported_languages

\* C23: with a language tag outside the supported set tokenize_code returns
\* exactly one token, its text the entire input and its color the default
\* gray, and it never raises.
C23_UnsupportedLanguageOneGrayToken ==
    (call.fn = "tokenize_code" /\ frame.pc # "call" /\ UnsupportedTag) =>
        /\ frame.pc = "return"
        /\ Len(frame.value) = 1
        /\ frame.value[1].text = call.code
        /\ frame.value[1].color = DefaultGray

\* A text of an identifier, a space and a bracket, which a supported language
\* splits in three, has been tokenized with a tag that is not supported.
C23_Witness ==
    /\ call.fn = "tokenize_code"
    /\ frame.pc = "return"
    /\ call.language = <<"t", "e", "x", "t">>
    /\ call.code = <<"f", " ", "(">>
    /\ Len(frame.value) = 1

\* The call has returned the tokens of a code text in a supported language.
TokenizedSupported ==
    /\ call.fn = "tokenize_code"
    /\ frame.pc = "return"
    /\ ~UnsupportedTag

\* C24: language aliases are normalized before tokenizing: with shell the
\* tokens (texts and colors) of every code text are those with bash, and with
\* js those with javascript.
C24_AliasesAgree ==
    (call.fn = "tokenize_code" /\ frame.pc = "return") =>
        /\ call.language = tag.shell => frame.value = tokenize_code(call.code, tag.bash)
        /\ call.language = tag.js => frame.value = tokenize_code(call.code, tag.javascript)

\* The language whose keyword set a tag stands for.
KeywordLanguage(language_tag) ==
    LET normalized == strip(lower(language_tag))
    IN  IF normalized = tag.js THEN tag.javascript
        ELSE IF normalized = tag.shell THEN tag.bash
        ELSE normalized

\* word is a keyword of the language of the call in some letter case.
IsKeywordOfCall(word) ==
    \E w \in keywords[KeywordLanguage(call.language)] : lower(word) = lower(w)

\* C25: keywords are matched case-insensitively: for every supported language
\* and every word of its keyword set, written in any letter case, the one
\* token of the word has the keyword color.
C25_KeywordsAnyCase ==
    (TokenizedSupported /\ IsKeywordOfCall(call.code)) =>
        frame.value = <<[text |-> call.code, color |-> <<197, 134, 192>>]>>

\* The token is an identifier: it starts with a letter or an underscore.
IsIdentifierToken(t) == t.text # <<>> /\ (isalpha(t.text[1]) \/ t.text[1] = "_")

\* Token k of the result is an identifier that is no keyword.
PlainIdentifierAt(k) ==
    /\ IsIdentifierToken(frame.value[k])
    /\ ~IsKeywordOfCall(frame.value[k].text)

\* Token k of the result is followed at once by an opening bracket.
FollowedByBracket(k) ==
    /\ k < Len(frame.value)
    /\ frame.value[k + 1].text[1] = "("

\* C26: in the tokens of a supported language an identifier that is not a
\* keyword and is immediately followed by "(" has the function color.
C26_CalledIdentifierIsFunction ==
    TokenizedSupported =>
        \A k \in 1..Len(frame.value) :
            (PlainIdentifierAt(k) /\ FollowedByBracket(k)) =>
                frame.value[k].color = <<220, 220, 170>>

\* C27: there is one default color: a plain identifier (no keyword, no
\* function) has the gray of the whitespace tokens, the operator tokens and
\* the token of an unsupported language.
C27_OneDefaultColor ==
    TokenizedSupported =>
        \A k \in 1..Len(frame.value) :
            (PlainIdentifierAt(k) /\ ~FollowedByBracket(k)) =>
                frame.value[k].color = DefaultGray

\* ---------------------------------------------------------------------------
\* parsers/text.py: parse_markdown_formatting
\* ---------------------------------------------------------------------------

\* The longest fragment.
MaxTextLen == 5

\* "." of the pattern meets no line end between positions a and b.
dot_run(text, a, b) == \A k \in a..b : text[k] # "\n"

\* The alternatives of the pattern tried at position at (1-based): the
\* position after the match, 0 when the alternative does not match there.
\* \*\*.*?\*\* : the shortest run up to the next doubled asterisk
bold_match_end(text, at) ==
    IF at + 1 <= Len(text) /\ text[at] = "*" /\ text[at + 1] = "*"
    THEN LET close == find_str(text, <<"*", "*">>, at + 2)
         IN  IF close # 0 /\ dot_run(text, at + 2, close - 1) THEN close + 2 ELSE 0
    ELSE 0

\* `.*?`
code_match_end(text, at) ==
    IF text[at] = BQ
    THEN LET close == find_str(text, <<BQ>>, at + 1)
         IN  IF close # 0 /\ dot_run(text, at + 1, close - 1) THEN close + 1 ELSE 0
    ELSE 0

\* (?<!\*)\*(?!\*)[^*]*\* and the same with the underscore: the mark is not
\* preceded and not followed by the mark, and the match runs to the next mark.
italic_match_end(text, at, mark) ==
    IF /\ text[at] = mark
       /\ at = 1 \/ text[at - 1] # mark
       /\ at = Len(text) \/ text[at + 1] # mark
    THEN LET close == find_str(text, <<mark>>, at + 1)
         IN  IF close # 0 THEN close + 1 ELSE 0
    ELSE 0

\* The alternation: the first alternative that matches at the position.
pattern_match_end(text, at) ==
    IF bold_match_end(text, at) # 0 THEN bold_match_end(text, at)
    ELSE IF code_match_end(text, at) # 0 THEN code_match_end(text, at)
    ELSE IF italic_match_end(text, at, "*") # 0 THEN italic_match_end(text, at, "*")
    ELSE italic_match_end(text, at, "_")

\* re.finditer: the matches from left to right, none overlapping; a match is
\* the position of its first character and the position after its last.
RECURSIVE finditer(_, _, _)
finditer(text, at, found) ==
    IF at > Len(text) THEN found
    ELSE LET stop == pattern_match_end(text, at)
         IN  IF stop # 0
             THEN finditer(text, stop, Append(found, [start |-> at, stop |-> stop]))
             ELSE finditer(text, at + 1, found)

plain_segment(t) == [text |-> t, bold |-> FALSE, italic |-> FALSE, code |-> FALSE]

\* matched_text[n:-n]
inner_text(matched_text, n) == SubSeq(matched_text, n + 1, Len(matched_text) - n)

\* Lines 97-122: the segment of a match, read off its first and last characters.
formatted_segment(matched_text) ==
    IF startswith(matched_text, <<"*", "*">>) /\ endswith(matched_text, <<"*", "*">>)
    THEN <<[text |-> inner_text(matched_text, 2),
            bold |-> TRUE, italic |-> FALSE, code |-> FALSE]>>
    ELSE IF startswith(matched_text, <<"*">>) /\ endswith(matched_text, <<"*">>)
    THEN <<[text |-> inner_text(matched_text, 1),
            bold |-> FALSE, italic |-> TRUE, code |-> FALSE]>>
    ELSE IF startswith(matched_text, <<"_">>) /\ endswith(matched_text, <<"_">>)
    THEN <<[text |-> inner_text(matched_text, 1),
            bold |-> FALSE, italic |-> TRUE, code |-> FALSE]>>
    ELSE IF startswith(matched_text, <<BQ>>) /\ endswith(matched_text, <<BQ>>)
    THEN <<[text |-> inner_text(matched_text, 1),
            bold |-> FALSE, italic |-> FALSE, code |-> TRUE]>>
    ELSE <<>>

\* The plain text between last_end and the next match (or the end), positions
\* being 1-based: none when it is empty.
plain_between(text, last_end, start) ==
    IF start > last_end
    THEN <<plain_segment(SubSeq(text, last_end, start - 1))>>
    ELSE <<>>

\* The body of the for loop, match after match.
RECURSIVE segments_of(_, _, _, _)
segments_of(text, found, last_end, segments) ==
    IF found = <<>>
    THEN segments \o plain_between(text, last_end, Len(text) + 1)
    ELSE LET match == Head(found)
         IN  segments_of(text, Tail(found), match.stop,
                         segments \o plain_between(text, last_end, match.start)
                                  \o formatted_segment(SubSeq(text, match.start,
                                                              match.stop - 1)))

\* A reading of the end of the function that leaves out the last test.
segments_as_collected(segments, text) == segments

\* Lines 137-140: if not segments, the whole text as one plain segment.
segments_or_whole_text(segments, text) ==
    IF segments = <<>> THEN <<plain_segment(text)>> ELSE segments

parse_markdown_formatting(text) ==
    segments_or_whole_text(segments_of(text, finditer(text, 1, <<>>), 1, <<>>), text)

\* The characters fragments are written from: the three markers, a letter
\* and a line end.
TextAlphabet == {"*", "_", BQ, "a", "\n"}

Fragments == UNION {[1..n -> TextAlphabet] : n \in 0..MaxTextLen}

InitFormat ==
    /\ NoSlide
    /\ \E text \in Fragments : call = [fn |-> "parse_markdown_formatting", text |-> text]
    /\ frame = [pc |-> "call"]

\* Lines 39-142: the call answers the segments; found keeps the matches of
\* the loop.
ParseMarkdownFormatting ==
    /\ call.fn = "parse_markdown_formatting"
    /\ frame.pc = "call"
    /\ frame' = [pc |-> "return",
                 value |-> parse_markdown_formatting(call.text),
                 found |-> finditer(call.text, 1, <<>>)]
    /\ UNCHANGED <<call, slide_vars>>

NextFormat == ParseMarkdownFormatting

SpecFormat == InitFormat /\ [][NextFormat]_vars

\* The fragment holds none of the formatting markers.
NoMarker == \A k \in 1..Len(call.text) : call.text[k] \notin {"*", "_", BQ}

\* C28: parse_markdown_formatting never returns an empty list, and a fragment
\* without any formatting marker, the empty string included, yields exactly
\* one run, bold, italic and code all false, its text the whole input.
C28_NeverEmptyPlainIsOneRun ==
    (call.fn = "parse_markdown_formatting" /\ frame.pc = "return") =>
        /\ frame.value # <<>>
        /\ NoMarker =>
              frame.value = <<[text |-> call.text, bold |-> FALSE,
                               italic |-> FALSE, code |-> FALSE]>>

\* The empty string has been parsed into one run.
C28_Witness ==
    /\ call.fn = "parse_markdown_formatting"
    /\ frame.pc = "return"
    /\ call.text = <<>>
    /\ Len(frame.value) = 1

\* Match k of the loop is an italic match written with asterisks.
AsteriskItalic(k) ==
    LET matched_text == SubSeq(call.text, frame.found[k].start, frame.found[k].stop - 1)
    IN  /\ matched_text[1] = "*"
        /\ ~(startswith(matched_text, <<"*", "*">>) /\ endswith(matched_text, <<"*", "*">>))

\* The character at position at of the fragment is an asterisk.
AsteriskAt(at) == at \in 1..Len(call.text) /\ call.text[at] = "*"

\* C29: an italic match never takes an asterisk of a doubled marker: neither
\* its opening nor its closing asterisk is next to another asterisk of the
\* input.
C29_ItalicTakesNoDoubledAsterisk ==
    (call.fn = "parse_markdown_formatting" /\ frame.pc = "return") =>
        \A k \in 1..Len(frame.found) :
            AsteriskItalic(k) =>
                /\ ~AsteriskAt(frame.found[k].start - 1)
                /\ ~AsteriskAt(frame.found[k].start + 1)
                /\ ~AsteriskAt(frame.found[k].stop - 2)
                /\ ~AsteriskAt(frame.found[k].stop)

\* ---------------------------------------------------------------------------
\* utils/colors.py: parse_color
\* ---------------------------------------------------------------------------

\* The longest color string after its leading hashes, and the most leading
\* hashes.
MaxColorLen == 6

MaxHashes == 2

\* An Optional value: None, or the one value.
None == <<>>

Some(x) == <<x>>

hex_digits ==
    <<"0", "1", "2", "3", "4", "5", "6", "7", "8", "9", "a", "b", "c", "d", "e", "f">>

IsHexDigit(c) == \E k \in 1..Len(hex_digits) : lower_char(c) = hex_digits[k]

hex_value(c) == (CHOOSE k \in 1..Len(hex_digits) : lower_char(c) = hex_digits[k]) - 1

RECURSIVE hex_number(_)
hex_number(digits) ==
    IF digits = <<>> THEN 0
    ELSE hex_number(SubSeq(digits, 1, Len(digits) - 1)) * Len(hex_digits)
         + hex_value(digits[Len(digits)])

\* int(s, 16) of a two-character string: spaces around are dropped, a sign
\* may lead, and what is left must be hex digits.  ok is FALSE for ValueError.
int16(s) ==
    LET t == strip(s)
        signed == t # <<>> /\ Head(t) \in {"+", "-"}
        digits == IF signed THEN Tail(t) ELSE t
        ok == digits # <<>> /\ \A k \in 1..Len(digits) : IsHexDigit(digits[k])
    IN  [ok |-> ok,
         value |-> IF ~ok THEN 0
                   ELSE IF signed /\ Head(t) = "-" THEN 0 - hex_number(digits)
                   ELSE hex_number(digits)]

\* color_str.lstrip("#")
RECURSIVE lstrip_hash(_)
lstrip_hash(s) == IF s # <<>> /\ Head(s) = "#" THEN lstrip_hash(Tail(s)) ELSE s

\* RGBColor(r, g, b) raises ValueError for a value outside 0..255.
rgb_values(r, g, b) == \A v \in {r, g, b} : v \in 0..255

\* color_str is None or the one string.
parse_color(color_str) ==
    IF color_str = None \/ color_str[1] = <<>> THEN None
    ELSE LET stripped == lstrip_hash(color_str[1])
         IN  IF Len(stripped) # 6 THEN None
             ELSE LET r == int16(SubSeq(stripped, 1, 2))
                      g == int16(SubSeq(stripped, 3, 4))
                      b == int16(SubSeq(stripped, 5, 6))
                  IN  IF r.ok /\ g.ok /\ b.ok /\ rgb_values(r.value, g.value, b.value)
                      THEN Some(RGBColor(r.value, g.value, b.value))
                      ELSE None

\* The characters color strings are written from after their leading
\* hashes: two hex digits, a letter that is no hex digit and a sign.
ColorAlphabet == {"F", "0", "g", "+"}

hashes(n) == [k \in 1..n |-> "#"]

ColorStrings ==
    {hashes(h) \o s : h \in 0..MaxHashes,
                      s \in UNION {[1..n -> ColorAlphabet] : n \in 0..MaxColorLen}}

InitColor ==
    /\ NoSlide
    /\ \E color_str \in {None} \cup {Some(s) : s \in ColorStrings} :
          call = [fn |-> "parse_color", color_str |-> color_str]
    /\ frame = [pc |-> "call"]

\* Lines 9-47.
ParseColor ==
    /\ call.fn = "parse_color"
    /\ frame.pc = "call"
    /\ frame' = Returned(parse_color(call.color_str))
    /\ UNCHANGED <<call, slide_vars>>

NextColor == ParseColor

SpecColor == InitColor /\ [][NextColor]_vars

\* The argument is a string of exactly six hexadecimal digits, one hash
\* before them or none.
SixHexDigits(s) ==
    /\ Len(s) = 6
    /\ \A k \in 1..6 :
          s[k] \in {"0", "1", "2", "3", "4", "5", "6", "7", "8", "9",
                    "a", "b", "c", "d", "e", "f", "A", "B", "C", "D", "E", "F"}

WellFormedColor(color_str) ==
    /\ color_str # None
    /\ \/ SixHexDigits(color_str[1])
       \/ /\ color_str[1] # <<>>
          /\ Head(color_str[1]) = "#"
          /\ SixHexDigits(Tail(color_str[1]))

\* C30: parse_color never raises and returns a color only for a string of
\* exactly six hexadecimal digits with one hash before them or none; for
\* None, the empty string and every other string it returns None.
C30_ColorOnlyForSixHexDigits ==
    (call.fn = "parse_color" /\ frame.pc # "call") =>
        /\ frame.pc = "return"
        /\ frame.value # None => WellFormedColor(call.color_str)

\* "".join(token["text"] for token in tokens)
RECURSIVE joined_texts(_)
joined_texts(tokens) ==
    IF tokens = <<>> THEN <<>> ELSE Head(tokens).text \o joined_texts(Tail(tokens))

\* C39: for every supported language and every code text tokenize_code is
\* lossless and makes progress: every token has a non-empty text, and the
\* token texts joined in their order are the code.
C39_TokensRebuildCode ==
    TokenizedSupported =>
        /\ \A n \in 1..Len(frame.value) : frame.value[n].text # <<>>
        /\ joined_texts(frame.value) = call.code

\* A string that an escaped quote leaves open has been tokenized as Python.
C39_Witness ==
    /\ TokenizedSupported
    /\ call.language = tag.python
    /\ call.code = <<"'", "\\", "'">>
    /\ Len(frame.value) = 1

----------------------------------------------------------------------------
(* parse_slide_content from its call to its return                         *)
(* (src/src/presenter/parsers/slides.py, lines 50-503)                     *)

MaxLiveLines == 2

\* The slide texts of a call that is followed to its return.
LiveTexts == UNION {[1..n -> LineSet] : n \in 1..MaxLiveLines}

\* Before the call: no slide text yet.
InitLive ==
    /\ NoSlide
    /\ call = [fn |-> "parse_slide_content"]
    /\ frame = <<>>

\* Lines 50-108: the call with a slide text; the locals of the scan are set.
Enter ==
    /\ pc = "idle"
    /\ call = [fn |-> "parse_slide_content"]
    /\ frame = <<>>
    /\ src' \in LiveTexts
    /\ lines' = src'
    /\ pc' = "scan"
    /\ slide_data' = [title |-> <<>>, body |-> <<>>, images |-> <<>>,
                      code_blocks |-> <<>>, speaker_notes |-> <<>>]
    /\ firsts' = [body |-> <<>>, para |-> 0, list |-> 0]
    /\ UNCHANGED <<i, current_list, in_list, in_code_block, current_code_block,
                   code_block_language, current_paragraph, call, frame>>

NextLive == Enter \/ Next

\* The progress of a running call: the call is entered, the for loop goes to
\* its next line, or the statements after the loop run.  Every step of
\* NextLive is one of these.
Proceeds ==
    \/ pc = "idle" /\ pc' = "scan" /\ i' = i
    \/ pc = "scan" /\ i <= Len(lines) /\ i' = i + 1 /\ pc' = pc
    \/ pc = "scan" /\ i > Len(lines) /\ pc' = "done" /\ i' = i

\* The interpreter runs the call without stopping: a for loop over a list and
\* straight-line code after it, with no wait and no other thread.
LiveSpec == InitLive /\ [][NextLive]_vars /\ WF_<<pc, i>>(Proceeds)

\* Every step of the call is a step of progress.
StepsProceed == [][Proceeds]_vars

\* The body items a step added.
AddedItems == SubSeq(slide_data'.body, Len(Body) + 1, Len(slide_data'.body))

\* The list buffer after the step holds the items it held, in their order, the
\* last one possibly with a continuation appended.
ListExtended ==
    /\ Len(current_list') >= Len(current_list)
    /\ \A k \in 1..Len(current_list) :
          IF k < Len(current_list)
          THEN current_list'[k] = current_list[k]
          ELSE startswith(current_list'[k], current_list[k])

\* A step of the scan keeps what is buffered: body only grows, and the lines of
\* the paragraph buffer and the items of the list buffer either stay in their
\* buffer, in order, or are in an item the step added to body.
StepKeepsBuffered ==
    /\ SubSeq(slide_data'.body, 1, Len(Body)) = Body
    /\ current_paragraph # <<>> =>
          \/ startswith(current_paragraph', current_paragraph)
          \/ \E k \in 1..Len(AddedItems) :
                AddedItems[k] = ContentItem(join(current_paragraph, SP), "text")
    /\ current_list # <<>> =>
          \/ ListExtended
          \/ \E k \in 1..Len(AddedItems) : AddedItems[k] = ListItem(current_list)

\* The step that ends the parse adds the pending paragraph and then the
\* pending list, and nothing else.
EndFlushesBoth ==
    (pc = "scan" /\ pc' = "done") =>
        AddedItems =
            (IF current_paragraph # <<>>
             THEN <<ContentItem(join(current_paragraph, SP), "text")>> ELSE <<>>)
            \o (IF current_list # <<>> THEN <<ListItem(current_list)>> ELSE <<>>)

\* C32: nothing buffered is lost: every line appended to the paragraph buffer
\* and every item appended to the list buffer stays buffered or goes to body,
\* in order, at every step; the parse finishes, and its last step flushes the
\* pending paragraph before the pending list.
C32_NothingBufferedIsLost ==
    /\ [][pc = "scan" => (StepKeepsBuffered /\ EndFlushesBoth)]_vars
    /\ <>(pc = "done")

\* A finished parse whose last step flushed the list, after the paragraph
\* before it had gone to body.
C32_Witness ==
    /\ pc = "done"
    /\ Len(Body) = 2
    /\ Body[1] = ContentItem(<<"a">>, "text")
    /\ Body[2].type = "list"

----------------------------------------------------------------------------
(* parse_slide_content on slides with lines that are no heading and no image *)
(* (src/src/presenter/parsers/slides.py, lines 50-503)                      *)

MaxVisibleLines == 3

VisibleLines ==
    MoreLines \cup
    { Blank,
      <<"a">>,
      <<"-", " ", "b">>,
      <<" ", " ", "d">>,
      <<"#", " ", "T">>,
      <<"#", "#", " ", "U">>,
      <<"#", "#", "#", " ", "h">>,
      <<BQ, BQ, BQ, "p">>,
      <<" ", "x", "|", "y">>,
      <<"-", "-", "-">>,
      <<"!", "[", "i", "]", "(", "u", ")">> }

VisibleTexts == UNION {[1..n -> VisibleLines] : n \in 1..MaxVisibleLines}

\* Lines 50-108 for one of these slide texts.
InitVisible ==
    /\ src \in VisibleTexts
    /\ lines = src
    /\ i = 1
    /\ pc = "scan"
    /\ slide_data = [title |-> <<>>, body |-> <<>>, images |-> <<>>,
                     code_blocks |-> <<>>, speaker_notes |-> <<>>]
    /\ current_list = <<>>
    /\ in_list = FALSE
    /\ in_code_block = FALSE
    /\ current_code_block = <<>>
    /\ code_block_language = <<>>
    /\ current_paragraph = <<>>
    /\ firsts = [body |-> <<>>, para |-> 0, list |-> 0]
    /\ call = [fn |-> "parse_slide_content"]
    /\ frame = <<>>

SpecVisible == InitVisible /\ [][Next]_vars

\* sub in s, for two strings.
IsInfix(sub, s) ==
    \E a \in 1..(Len(s) - Len(sub) + 1) : SubSeq(s, a, a + Len(sub) - 1) = sub

\* The text a reader sees of source line k: the line without its marker.
LineText(k) ==
    LET s == Stripped(k)
    IN  CASE Shape(k) = "title" ->
                 IF startswith(s, <<"#", " ">>) THEN strip(slice_from(s, 2))
                 ELSE strip(slice_from(s, 3))
          [] Shape(k) = "header" -> strip(slice_from(s, header_level(s) + 1))
          [] Shape(k) = "list_item" -> item_text(s)
          [] OTHER -> s

\* Source line k is in the returned slide: its text is the title, it is in a
\* text, a list entry or the raw lines of a table of body, or its alternative
\* text and path are an image reference.
Contributes(k) ==
    \/ Shape(k) \in {"title", "header"} /\ slide_data.title = LineText(k)
    \/ \E n \in 1..Len(Body) :
          CASE Body[n].type = "content" -> IsInfix(LineText(k), Body[n].text)
            [] Body[n].type = "list" ->
                  \E e \in 1..Len(Body[n].items) : IsInfix(LineText(k), Body[n].items[e])
            [] Body[n].type = "table" ->
                  \E r \in 1..Len(Body[n].table.raw) : Body[n].table.raw[r] = src[k]
    \/ /\ Shape(k) = "image"
       /\ image_match(Stripped(k)).ok
       /\ \E n \in 1..Len(slide_data.images) :
             slide_data.images[n] = [alt |-> image_match(Stripped(k)).alt,
                                     path |-> image_match(Stripped(k)).path]

\* A non-blank line of the slide text that is no fence and lies outside the
\* code fences.
VisibleLine(k) == Shape(k) \notin {"blank", "fence"} /\ ~InsideFence(k)

\* C36: no visible text is silently dropped: every non-blank line of the slide
\* text outside code fences contributes its text to the final title, to a body
\* item or to an image reference.
C36_NoVisibleTextDropped ==
    pc = "done" => \A k \in 1..Len(src) : VisibleLine(k) => Contributes(k)

\* The lines the returned slide does not hold are of three kinds: a heading
\* that a later "# " or "## " line overwrote as the title, a line that starts
\* with "#" and is no heading, and a "![" line without "](path)".
DroppedOnlyAtThreePlaces ==
    pc = "done" =>
        \A k \in 1..Len(src) :
            (VisibleLine(k) /\ ~Contributes(k)) =>
                \/ /\ Shape(k) \in {"title", "header"}
                   /\ \E j \in (k + 1)..Len(src) : Shape(j) = "title" /\ ~InsideFence(j)
                \/ Shape(k) = "other" /\ startswith(Stripped(k), <<"#">>)
                \/ Shape(k) = "image" /\ ~image_match(Stripped(k)).ok

\* A returned slide whose text had an image line without a path followed by a
\* paragraph line: the paragraph is all there is in the slide.
ImageLineDropped ==
    /\ pc = "done"
    /\ src = << <<"!", "[", "i", "]">>, <<"a">> >>
    /\ slide_data.images = <<>>
    /\ slide_data.title = <<>>
    /\ Body = <<ContentItem(<<"a">>, "text")>>

====
